---- MODULE Spec2Model ----
(***************************************************************************)
(* The IP-insight lookup pipeline of the worker build                      *)
(* (src/src/services/ipService.worker.ts): lookupIpInsight with its cache  *)
(* read, stale-while-revalidate branch, request deduplication, ordered     *)
(* provider fallback and cache write, and the detached revalidateIpInsight *)
(* task.  Every await of the code is a step boundary: a lookup call and a  *)
(* revalidation are processes whose pc names the await they are parked at. *)
(* The cache store and the request deduplicator are imported by the        *)
(* service but their code is not part of the sources; they are modelled    *)
(* from their contracts (sections 4.1 and 4.2 of the specification).       *)
(***************************************************************************)
EXTENDS Integers, FiniteSets, Sequences, TLC

\* ------------------------------------------------------------------ bounds
\* Lookup calls made over a run (each caller slot is one lookupIpInsight call).
NumCallers == 3
\* Background revalidations that may be in flight at once.
MaxRevals == 2
\* Last instant of the clock.
MaxNow == 3

\* Warming runs that could be under way at once.
MaxRuns == 2

Callers == 1..NumCallers
Revals == 1..MaxRevals
Runs == 1..MaxRuns

\* ------------------------------------------------------------ configuration
\* env.CACHE_TTL_MS, env.CACHE_STALE_TTL_MS and env.CLIENT_TIMEOUT_MS as the
\* isolate is configured here, in clock units.
CACHE_TTL_MS == 1
CACHE_STALE_TTL_MS == 2
CLIENT_TIMEOUT_MS == 2
\* Longest time one provider request is followed for.
MaxElapsed == 4
\* Requests the routes have open at once.
MaxOpenRequests == 1

\* A member of env is a string or is not set.  A string is the sequence of
\* its characters.
Unset == [defined |-> FALSE, text |-> <<>>]
Text(chars) == [defined |-> TRUE, text |-> chars]

DigitChars == {"0", "1", "2", "3", "4", "5", "6", "7", "8", "9"}
DigitValue(ch) ==
    CASE ch = "0" -> 0 [] ch = "1" -> 1 [] ch = "2" -> 2 [] ch = "3" -> 3
      [] ch = "4" -> 4 [] ch = "5" -> 5 [] ch = "6" -> 6 [] ch = "7" -> 7
      [] ch = "8" -> 8 [] ch = "9" -> 9
DigitChar(d) == <<"0", "1", "2", "3", "4", "5", "6", "7", "8", "9">>[d + 1]

IsDigits(chars) == Len(chars) > 0 /\ \A i \in 1..Len(chars) : chars[i] \in DigitChars

RECURSIVE DigitsValue(_)
DigitsValue(chars) ==
    IF chars = <<>> THEN 0
    ELSE DigitsValue(SubSeq(chars, 1, Len(chars) - 1)) * 10 + DigitValue(chars[Len(chars)])

\* String(n) of a natural number: its decimal digits.
RECURSIVE Decimal(_)
Decimal(n) == IF n < 10 THEN <<DigitChar(n)>> ELSE Decimal(n \div 10) \o <<DigitChar(n % 10)>>

\* Number(value) of the language: undefined and a text that is not a number
\* give NaN, the empty text gives 0, a decimal literal gives its value.
NaN == [finite |-> FALSE, n |-> 0]
Finite(n) == [finite |-> TRUE, n |-> n]
Number(value) ==
    IF ~value.defined THEN NaN
    ELSE IF value.text = <<>> THEN Finite(0)
    ELSE IF IsDigits(value.text) THEN Finite(DigitsValue(value.text))
    ELSE IF value.text[1] = "-" /\ IsDigits(Tail(value.text))
         THEN Finite(0 - DigitsValue(Tail(value.text)))
    ELSE NaN

parseNumber(value, fallback) ==
    LET parsed == Number(value)
    IN  IF parsed.finite THEN parsed.n ELSE fallback

ttlMs == parseNumber(Text(Decimal(CACHE_TTL_MS)), 5 * 60 * 1000)
staleTtlMs == parseNumber(Text(Decimal(CACHE_STALE_TTL_MS)), 30 * 60 * 1000)
clientTimeout == parseNumber(Text(Decimal(CLIENT_TIMEOUT_MS)), 2500)

\* ------------------------------------------------------------------- values
IPs == {"8.8.8.8"}
Countries == {"US", "DE"}

NoInsight == [ip |-> "", country |-> ""]

\* Raw provider payloads: each provider has its own envelope.
IpInfoPayloads(ip) == {[provider |-> "ipinfo", ip |-> ip, country |-> k] : k \in Countries}
RadarPayloads(ip) == {[provider |-> "radar", ip |-> ip, country |-> k] : k \in Countries}
NoPayload == [provider |-> "", ip |-> "", country |-> ""]

\* The canonical shape keeps no provider-specific field.
normalizeIpInfo(raw) == [ip |-> raw.ip, country |-> raw.country]
normalizeRadar(raw) == [ip |-> raw.ip, country |-> raw.country]

NoEntry == [data |-> NoInsight, storedAt |-> -1]

NoResult == [kind |-> "none", status |-> 0, data |-> NoInsight]
Ok(insight) == [kind |-> "ok", status |-> 200, data |-> insight]
ApiError(status) == [kind |-> "error", status |-> status, data |-> NoInsight]

\* Every string a route of the worker can hand to lookupIpInsight: the looked-up
\* addresses, the warmer's candidates, and what a path parameter or a
\* forwarding header may carry besides.
WarmCandidates == <<"8.8.8.8", "1.1.1.1">>
RequestTexts == {"8.8.8.8", "not-an-ip", "127.0.0.1"}
Addresses == IPs \cup {WarmCandidates[i] : i \in DOMAIN WarmCandidates} \cup RequestTexts

\* Variant of DedupKey: one key for every ip.
DedupKey_Constant(ip) == <<"ip:", "8.8.8.8">>

DedupKey(ip) == <<"ip:", ip>>
DedupKeys == {DedupKey(ip) : ip \in Addresses}

\* -------------------------------------------------------------------- state
VARIABLES
    env,      \* credentials present in the isolate's environment
    now,      \* the clock
    cache,    \* ipCache: ip -> entry
    written,  \* history: instant of the first cache write per ip, -1 if none
    pending,  \* requestDeduplicator: key -> caller owning the pending factory, 0 if none
    call,     \* the lookupIpInsight calls
    reval,    \* the detached revalidateIpInsight tasks
    req,      \* the HTTP request behind each call: its route and its answer
    warmer,   \* the cacheWarmer singleton and the isolate's cold-start flag
    probe,    \* one provider request followed through fetchWithTimeout
    kv,       \* the platform's key-value store behind the durable cache backend
    workerGlobal  \* the isolate's global object: the lazily built service handle

ext == <<req, warmer, probe, kv, workerGlobal>>
vars == <<env, now, cache, written, pending, call, reval, req, warmer, probe, kv, workerGlobal>>

IdleCall ==
    [pc |-> "idle", ip |-> "", cached |-> NoEntry, isStale |-> FALSE,
     served |-> "none", ticket |-> 0, p1 |-> "none", p2 |-> "none",
     n1 |-> 0, n2 |-> 0, raw |-> NoPayload, insight |-> NoInsight,
     result |-> NoResult, herd |-> FALSE]

IdleReval == [pc |-> "idle", ip |-> "", insight |-> NoInsight, outcome |-> "none"]

\* No request behind the call (a direct call of lookupIpInsight).
IdleReq == [route |-> "", status |-> 0]

\* The platform store with nothing in it: no value and no expiration.
NoRecord == [value |-> NoEntry, expiration |-> -1]
EmptyKv == [key \in Addresses |-> NoRecord]

\* A warming run that is not running.
IdleRun == [pc |-> "idle", index |-> 0, lookup |-> 0, slept |-> FALSE]

\* The warmer at rest in a fresh isolate.  IP_CACHE and CACHE_WARMING_ENABLED
\* are the two members of env the cold-start trigger reads; lastCall and
\* lastEnabled (history) are what the last warmCache call did and the enabled
\* option it was given.
IdleWarmer ==
    [inProgress |-> FALSE, warmedCount |-> 0, run |-> [r \in Runs |-> IdleRun],
     lastCall |-> "none", lastEnabled |-> TRUE, ipCacheInitialized |-> FALSE,
     IP_CACHE |-> FALSE, CACHE_WARMING_ENABLED |-> FALSE]

\* No provider request under way.
IdleProbe ==
    [pc |-> "idle", fn |-> "", elapsed |-> 0, timer |-> FALSE, timedOut |-> FALSE,
     calls |-> 0, answer |-> [headers |-> "", body |-> "", success |-> FALSE],
     out |-> [kind |-> "none", value |-> ""],
     health |-> [http |-> 0, status |-> "", radarHealthy |-> ""]]

\* What a request or a scheduled event may carry in env.CACHE_BACKEND,
\* env.CACHE_TTL_MS and env.CACHE_STALE_TTL_MS: not set, the empty string,
\* words, and numbers.
KvText == Text(<<"k", "v">>)
MemoryText == Text(<<"m", "e", "m", "o", "r", "y">>)
BackendTexts == {Unset, KvText, MemoryText, Text(<<"r", "e", "d", "i", "s">>)}
DurationTexts ==
    {Unset, Text(<<>>), Text(<<"a", "b", "c">>), Text(<<"0">>), Text(<<"-", "1">>),
     Text(<<"1">>), Text(<<"2">>)}
IsolateEnvs ==
    [CACHE_BACKEND : BackendTexts, CACHE_TTL_MS : DurationTexts,
     CACHE_STALE_TTL_MS : DurationTexts]
NoEnv == [CACHE_BACKEND |-> Unset, CACHE_TTL_MS |-> Unset, CACHE_STALE_TTL_MS |-> Unset]

\* The options createWorkerIpService hands to createCache.
CacheOptions(e) ==
    [ttlMs |-> parseNumber(e.CACHE_TTL_MS, 5 * 60 * 1000),
     staleTtlMs |-> parseNumber(e.CACHE_STALE_TTL_MS, 30 * 60 * 1000),
     backend |-> IF e.CACHE_BACKEND = KvText THEN KvText ELSE MemoryText]

\* The service object: instance tells the objects of successive constructions
\* apart (0: none), ipCache is the configuration of its one cache store.
NoServices == [instance |-> 0, ipCache |-> CacheOptions(NoEnv)]
createWorkerIpService(e, instance) == [instance |-> instance, ipCache |-> CacheOptions(e)]

Routes == {"/api/health", "/api/ip/:ip", "fetch", "scheduled"}
NoHandler == [route |-> "", instance |-> 0, backend |-> Unset]

\* The global object of a fresh isolate.  created (history) counts the calls
\* of createWorkerIpService, first (history) is the env of the first event
\* handled, handled (history) is the last handler that ran: the service
\* instance it used and the backend it reported.
FreshGlobal ==
    [workerServices |-> NoServices, created |-> 0, first |-> NoEnv, handled |-> NoHandler]

Environments ==
    [IPINFO_TOKEN : BOOLEAN, CLOUDFLARE_ACCOUNT_ID : BOOLEAN, CLOUDFLARE_RADAR_TOKEN : BOOLEAN]

Init ==
    /\ env \in Environments
    /\ req = [c \in Callers |-> IdleReq]
    /\ warmer = IdleWarmer
    /\ probe = IdleProbe
    /\ kv = EmptyKv
    /\ workerGlobal = FreshGlobal
    /\ now = 0
    /\ cache = [ip \in Addresses |-> NoEntry]
    /\ written = [ip \in Addresses |-> -1]
    /\ pending = [k \in DedupKeys |-> 0]
    /\ call = [c \in Callers |-> IdleCall]
    /\ reval = [r \in Revals |-> IdleReval]

\* -------------------------------------------------------------- cache store
Age(e) == now - e.storedAt

\* Variant of getWithStale: an entry whose age has reached ttlMs is already
\* reported stale.
getWithStale_StaleAtTtl(ip) ==
    LET e == cache[ip] IN
    IF e = NoEntry \/ Age(e) > staleTtlMs
    THEN [entry |-> NoEntry, isStale |-> FALSE]
    ELSE [entry |-> e, isStale |-> Age(e) >= ttlMs]

getWithStale(ip) ==
    LET e == cache[ip] IN
    IF e = NoEntry \/ Age(e) > staleTtlMs
    THEN [entry |-> NoEntry, isStale |-> FALSE]
    ELSE [entry |-> e, isStale |-> Age(e) > ttlMs]

\* Variant of CacheSet: the new data are merged into the entry that is there,
\* which keeps its storedAt.
CacheSet_Merged(ip, insight) ==
    /\ cache' = [cache EXCEPT ![ip] = IF @ = NoEntry
                                      THEN [data |-> insight, storedAt |-> now]
                                      ELSE [@ EXCEPT !.data = insight]]
    /\ written' = [written EXCEPT ![ip] = IF @ = -1 THEN now ELSE @]

CacheSet(ip, insight) ==
    /\ cache' = [cache EXCEPT ![ip] = [data |-> insight, storedAt |-> now]]
    /\ written' = [written EXCEPT ![ip] = IF @ = -1 THEN now ELSE @]

\* ------------------------------------------------------- request deduplicator
\* Variant of Settled: a failure is not passed on to the attached callers.
Settled_FailureNotShared(calls, c, outcome) ==
    [w \in Callers |->
        IF w = c \/ (calls[w].pc = "waiting" /\ calls[w].ticket = c /\ outcome.kind = "ok")
        THEN [calls[w] EXCEPT !.pc = "done", !.result = outcome,
                              !.insight = NoInsight, !.raw = NoPayload]
        ELSE calls[w]]

\* Variant of Release: the settled key stays in the pending set.
Release_Kept(key) == UNCHANGED pending

\* Variant of Settled: the outcome reaches the caller that ran the factory only.
Settled_OwnerOnly(calls, c, outcome) ==
    [w \in Callers |->
        IF w = c
        THEN [calls[w] EXCEPT !.pc = "done", !.result = outcome,
                              !.insight = NoInsight, !.raw = NoPayload]
        ELSE calls[w]]

\* The factory of caller c settles with outcome: c and every caller attached
\* to its ticket receive it.
Settled(calls, c, outcome) ==
    [w \in Callers |->
        IF w = c \/ (calls[w].pc = "waiting" /\ calls[w].ticket = c)
        THEN [calls[w] EXCEPT !.pc = "done", !.result = outcome,
                              !.insight = NoInsight, !.raw = NoPayload]
        ELSE calls[w]]

HasPending(key) == pending[key] # 0

Register(key, c) == pending' = [pending EXCEPT ![key] = c]

Release(key) == pending' = [pending EXCEPT ![key] = 0]

\* ---------------------------------------------------------- provider clients
\* What the network does with one request.  headers: "ok" a success status,
\* "bad" any other status, "error" the connection fails, "none" no answer.
\* body: "object" JSON carrying the payload, "empty" JSON carrying none (null
\* for ipinfo, no result member for radar), "invalid" not JSON, "stall" the
\* body never completes.  success: the success member of a Cloudflare envelope.
Responses ==
    [headers : {"ok", "bad", "error", "none"},
     body : {"object", "empty", "invalid", "stall"},
     success : BOOLEAN]

\* fetchWithTimeout as a function of the answer: the response, or a rejection
\* (connection error, or the abort when no headers came within clientTimeout).
fetchWithTimeout(answer) == IF answer.headers \in {"ok", "bad"} THEN "response" ELSE "reject"

\* Variant of fetchIpInfoWorker: the request is made whether or not a token is
\* configured.
fetchIpInfoWorker_NoTokenCheck(answer, payload) ==
    IF fetchWithTimeout(answer) = "reject" THEN [kind |-> "fail", raw |-> NoPayload, calls |-> 1]
    ELSE IF answer.headers # "ok" THEN [kind |-> "fail", raw |-> NoPayload, calls |-> 1]
    ELSE CASE answer.body = "object" -> [kind |-> "ok", raw |-> payload, calls |-> 1]
           [] answer.body = "empty" -> [kind |-> "absent", raw |-> NoPayload, calls |-> 1]
           [] answer.body = "invalid" -> [kind |-> "fail", raw |-> NoPayload, calls |-> 1]
           [] OTHER -> [kind |-> "hang", raw |-> NoPayload, calls |-> 1]

\* null without a token and no request made; otherwise one request, which
\* throws on a rejected fetch, on a non-success status and on a body that is
\* not JSON, and returns whatever the body parses to.
fetchIpInfoWorker(answer, payload) ==
    IF ~env.IPINFO_TOKEN THEN [kind |-> "absent", raw |-> NoPayload, calls |-> 0]
    ELSE IF fetchWithTimeout(answer) = "reject" THEN [kind |-> "fail", raw |-> NoPayload, calls |-> 1]
    ELSE IF answer.headers # "ok" THEN [kind |-> "fail", raw |-> NoPayload, calls |-> 1]
    ELSE CASE answer.body = "object" -> [kind |-> "ok", raw |-> payload, calls |-> 1]
           [] answer.body = "empty" -> [kind |-> "absent", raw |-> NoPayload, calls |-> 1]
           [] answer.body = "invalid" -> [kind |-> "fail", raw |-> NoPayload, calls |-> 1]
           [] OTHER -> [kind |-> "hang", raw |-> NoPayload, calls |-> 1]

\* null without the account id or the token and no request made; otherwise one
\* request, which throws as above and on an envelope with success false, and
\* returns the envelope's result.
fetchRadarWorker(answer, payload) ==
    IF ~env.CLOUDFLARE_ACCOUNT_ID \/ ~env.CLOUDFLARE_RADAR_TOKEN
    THEN [kind |-> "absent", raw |-> NoPayload, calls |-> 0]
    ELSE IF fetchWithTimeout(answer) = "reject" THEN [kind |-> "fail", raw |-> NoPayload, calls |-> 1]
    ELSE IF answer.headers # "ok" THEN [kind |-> "fail", raw |-> NoPayload, calls |-> 1]
    ELSE CASE answer.body = "stall" -> [kind |-> "hang", raw |-> NoPayload, calls |-> 1]
           [] answer.body = "invalid" -> [kind |-> "fail", raw |-> NoPayload, calls |-> 1]
           [] ~answer.success -> [kind |-> "fail", raw |-> NoPayload, calls |-> 1]
           [] answer.body = "object" -> [kind |-> "ok", raw |-> payload, calls |-> 1]
           [] OTHER -> [kind |-> "absent", raw |-> NoPayload, calls |-> 1]

\* false without the credentials and no request made; otherwise one request,
\* every failure of which is caught and answered false; a success status is
\* answered by Boolean(payload.success).
verifyRadarToken(answer) ==
    IF ~env.CLOUDFLARE_ACCOUNT_ID \/ ~env.CLOUDFLARE_RADAR_TOKEN
    THEN [kind |-> "return", value |-> "false", calls |-> 0]
    ELSE IF fetchWithTimeout(answer) = "reject" THEN [kind |-> "return", value |-> "false", calls |-> 1]
    ELSE IF answer.headers # "ok" THEN [kind |-> "return", value |-> "false", calls |-> 1]
    ELSE CASE answer.body = "stall" -> [kind |-> "hang", value |-> "", calls |-> 1]
           [] answer.body = "invalid" -> [kind |-> "return", value |-> "false", calls |-> 1]
           [] OTHER -> [kind |-> "return", value |-> IF answer.success THEN "true" ELSE "false",
                        calls |-> 1]

\* ----------------------------------------------------------- lookupIpInsight
\* Variant of LookupStart: the first read takes the stored entry whatever its
\* age (a plain map read instead of getWithStale).
LookupStart_RawRead(c, ip) ==
    /\ call[c].pc = "idle"
    /\ \A b \in Callers : b < c => call[b].pc # "idle"
    /\ call' = [call EXCEPT ![c] = [@ EXCEPT !.pc = "branch", !.ip = ip,
                                             !.cached = cache[ip], !.isStale = FALSE,
                                             !.herd = /\ written[ip] = -1
                                                      /\ \A b \in Callers :
                                                           call[b].ip = ip => call[b].pc # "done"]]
    /\ UNCHANGED <<env, now, cache, written, pending, reval>>

\* The call and its first cache read.  herd (history): the call starts while
\* ip has never been cached and no earlier call for ip has settled.
LookupStart(c, ip) ==
    /\ call[c].pc = "idle"
    /\ \A b \in Callers : b < c => call[b].pc # "idle"
    /\ LET r == getWithStale(ip) IN
       call' = [call EXCEPT ![c] = [@ EXCEPT !.pc = "branch", !.ip = ip,
                                             !.cached = r.entry, !.isStale = r.isStale,
                                             !.herd = /\ written[ip] = -1
                                                      /\ \A b \in Callers :
                                                           call[b].ip = ip => call[b].pc # "done"]]
    /\ UNCHANGED <<env, now, cache, written, pending, reval>>

\* The lowest free revalidation slot, 0 if every slot is busy.
FreeReval ==
    IF \E r \in Revals : reval[r].pc = "idle"
    THEN CHOOSE r \in Revals : reval[r].pc = "idle" /\ \A q \in Revals : q < r => reval[q].pc # "idle"
    ELSE 0

\* revalidateIpInsight(ip) is called without await: it runs up to its first
\* await (the primary provider call) and is left detached.
SpawnRevalidation(r, ip) ==
    reval' = [reval EXCEPT ![r] = [pc |-> "primary", ip |-> ip, insight |-> NoInsight,
                                   outcome |-> "none"]]

\* Variant of LookupServeCached: a stale entry is returned without starting
\* the revalidation.
LookupServeCached_NoRevalidation(c) ==
    /\ call[c].pc = "branch"
    /\ call[c].cached # NoEntry
    /\ call' = [call EXCEPT ![c] = [@ EXCEPT !.pc = "done", !.result = Ok(call[c].cached.data),
                                             !.served = IF call[c].isStale THEN "stale" ELSE "fresh",
                                             !.cached = NoEntry, !.isStale = FALSE]]
    /\ UNCHANGED <<env, now, cache, written, pending, reval>>

\* Variant of LookupServeCached: every cache hit starts a revalidation, fresh
\* or stale.
LookupServeCached_AlwaysRevalidates(c) ==
    /\ call[c].pc = "branch"
    /\ call[c].cached # NoEntry
    /\ FreeReval # 0
    /\ SpawnRevalidation(FreeReval, call[c].ip)
    /\ call' = [call EXCEPT ![c] = [@ EXCEPT !.pc = "done", !.result = Ok(call[c].cached.data),
                                             !.served = IF call[c].isStale THEN "stale" ELSE "fresh",
                                             !.cached = NoEntry, !.isStale = FALSE]]
    /\ UNCHANGED <<env, now, cache, written, pending>>

\* if (cached) { if (isStale) revalidate in background; return cached.data }
LookupServeCached(c) ==
    /\ call[c].pc = "branch"
    /\ call[c].cached # NoEntry
    /\ IF call[c].isStale
       THEN /\ FreeReval # 0
            /\ SpawnRevalidation(FreeReval, call[c].ip)
       ELSE UNCHANGED reval
    /\ call' = [call EXCEPT ![c] = [@ EXCEPT !.pc = "done", !.result = Ok(call[c].cached.data),
                                             !.served = IF call[c].isStale THEN "stale" ELSE "fresh",
                                             !.cached = NoEntry, !.isStale = FALSE]]
    /\ UNCHANGED <<env, now, cache, written, pending>>

\* Variant of LookupDeduplicate: the factory is started directly, without
\* going through the deduplicator's pending set.
LookupDeduplicate_Bypassed(c) ==
    /\ call[c].pc = "branch"
    /\ call[c].cached = NoEntry
    /\ call' = [call EXCEPT ![c] = [@ EXCEPT !.pc = "recheck", !.served = "miss", !.ticket = c]]
    /\ Register(DedupKey(call[c].ip), c)
    /\ UNCHANGED <<env, now, cache, written, reval>>

\* requestDeduplicator.deduplicate(`ip:${ip}`, factory): attach to the pending
\* resolution of the key, or register a new one and start the factory, which
\* runs up to its own cache read.
LookupDeduplicate(c) ==
    /\ call[c].pc = "branch"
    /\ call[c].cached = NoEntry
    /\ LET key == DedupKey(call[c].ip) IN
       IF HasPending(key)
       THEN /\ call' = [call EXCEPT ![c] = [@ EXCEPT !.pc = "waiting", !.served = "miss",
                                                     !.ticket = pending[key]]]
            /\ UNCHANGED pending
       ELSE /\ call' = [call EXCEPT ![c] = [@ EXCEPT !.pc = "recheck", !.served = "miss",
                                                     !.ticket = c]]
            /\ Register(key, c)
    /\ UNCHANGED <<env, now, cache, written, reval>>

\* Variant of FactoryRecheck: the factory goes to the providers without
\* reading the cache again.
FactoryRecheck_Skipped(c) ==
    /\ call[c].pc = "recheck"
    /\ call' = [call EXCEPT ![c] = [@ EXCEPT !.pc = "primary"]]
    /\ UNCHANGED <<env, now, cache, written, pending, reval>>

\* The factory's re-check of the cache: an entry ends the factory with its data.
FactoryRecheck(c) ==
    /\ call[c].pc = "recheck"
    /\ LET r == getWithStale(call[c].ip) IN
       IF r.entry # NoEntry
       THEN /\ call' = Settled(call, c, Ok(r.entry.data))
            /\ Release(DedupKey(call[c].ip))
       ELSE /\ call' = [call EXCEPT ![c] = [@ EXCEPT !.pc = "primary"]]
            /\ UNCHANGED pending
    /\ UNCHANGED <<env, now, cache, written, reval>>

\* What a lookup keeps of a provider call that brought no insight: "absent"
\* when the client returned without making a request, "fail" when a request
\* was made (it threw, or its answer carried no payload).
Verdict(o) == IF o.kind = "ok" THEN "ok" ELSE IF o.calls = 0 THEN "absent" ELSE "fail"

\* The provider calls a lookup or a revalidation can see return: every outcome
\* of the client over the answers of the network, a request that never ends
\* left out (its caller stays parked at the await).
IpInfoOutcomes(ip) ==
    {fetchIpInfoWorker(a, p) : a \in Responses, p \in IpInfoPayloads(ip)}
        \ {[kind |-> "hang", raw |-> NoPayload, calls |-> 1]}

RadarOutcomes(ip) ==
    {fetchRadarWorker(a, p) : a \in Responses, p \in RadarPayloads(ip)}
        \ {[kind |-> "hang", raw |-> NoPayload, calls |-> 1]}

\* Variant of FactoryPrimary: the secondary provider is called along with the
\* primary one, and the primary's insight is taken when there is one.
FactoryPrimary_Raced(c) ==
    /\ call[c].pc = "primary"
    /\ \E o \in IpInfoOutcomes(call[c].ip) :
         call' = [call EXCEPT ![c] =
                    IF o.kind = "ok"
                    THEN [@ EXCEPT !.pc = "set", !.p1 = "ok", !.n1 = @ + o.calls, !.raw = o.raw,
                                   !.n2 = @ + 1, !.insight = normalizeIpInfo(o.raw)]
                    ELSE [@ EXCEPT !.pc = "secondary", !.p1 = Verdict(o),
                                   !.n1 = @ + o.calls]]
    /\ UNCHANGED <<env, now, cache, written, pending, reval>>

\* Primary provider of the factory; a payload skips the secondary provider.
FactoryPrimary(c) ==
    /\ call[c].pc = "primary"
    /\ \E o \in IpInfoOutcomes(call[c].ip) :
         call' = [call EXCEPT ![c] =
                    IF o.kind = "ok"
                    THEN [@ EXCEPT !.pc = "set", !.p1 = "ok", !.n1 = @ + o.calls, !.raw = o.raw,
                                   !.insight = normalizeIpInfo(o.raw)]
                    ELSE [@ EXCEPT !.pc = "secondary", !.p1 = Verdict(o),
                                   !.n1 = @ + o.calls]]
    /\ UNCHANGED <<env, now, cache, written, pending, reval>>

\* Variant of FactorySecondary: the final `if (!insight) throw` is missing, so
\* a lookup without an insight goes on to store and return it.
FactorySecondary_NoThrow(c) ==
    /\ call[c].pc = "secondary"
    /\ \E o \in RadarOutcomes(call[c].ip) :
         call' = [call EXCEPT ![c] =
                    IF o.kind = "ok"
                    THEN [@ EXCEPT !.pc = "set", !.p2 = "ok", !.n2 = @ + o.calls, !.raw = o.raw,
                                   !.insight = normalizeRadar(o.raw)]
                    ELSE [@ EXCEPT !.pc = "set", !.p2 = Verdict(o),
                                   !.n2 = @ + o.calls]]
    /\ UNCHANGED <<env, now, cache, written, pending, reval>>

\* Variant of FactorySecondary: a lookup that found no insight leaves an entry
\* without insight in the cache.
FactorySecondary_CachesFailure(c) ==
    /\ call[c].pc = "secondary"
    /\ \E o \in RadarOutcomes(call[c].ip) :
         IF o.kind = "ok"
         THEN /\ call' = [call EXCEPT ![c] = [@ EXCEPT !.pc = "set", !.p2 = "ok", !.n2 = @ + o.calls,
                                                       !.raw = o.raw,
                                                       !.insight = normalizeRadar(o.raw)]]
              /\ UNCHANGED <<pending, cache, written>>
         ELSE /\ call' = Settled([call EXCEPT ![c] =
                                      [@ EXCEPT !.p2 = Verdict(o),
                                                !.n2 = @ + o.calls]],
                                  c, ApiError(502))
              /\ Release(DedupKey(call[c].ip))
              /\ CacheSet(call[c].ip, NoInsight)
    /\ UNCHANGED <<env, now, reval>>

\* Secondary provider of the factory; without an insight the factory throws
\* ApiError(502) and the pending resolution settles with that failure.
FactorySecondary(c) ==
    /\ call[c].pc = "secondary"
    /\ \E o \in RadarOutcomes(call[c].ip) :
         IF o.kind = "ok"
         THEN /\ call' = [call EXCEPT ![c] = [@ EXCEPT !.pc = "set", !.p2 = "ok", !.n2 = @ + o.calls,
                                                       !.raw = o.raw,
                                                       !.insight = normalizeRadar(o.raw)]]
              /\ UNCHANGED pending
         ELSE /\ call' = Settled([call EXCEPT ![c] =
                                      [@ EXCEPT !.p2 = Verdict(o),
                                                !.n2 = @ + o.calls]],
                                  c, ApiError(502))
              /\ Release(DedupKey(call[c].ip))
    /\ UNCHANGED <<env, now, cache, written, reval>>

\* Variant of FactoryStore: the insight is returned without being stored.
FactoryStore_NoWrite(c) ==
    /\ call[c].pc = "set"
    /\ call' = Settled(call, c, Ok(call[c].insight))
    /\ Release(DedupKey(call[c].ip))
    /\ UNCHANGED <<env, now, cache, written, reval>>

\* await ipCache.set(ip, insight); return insight
FactoryStore(c) ==
    /\ call[c].pc = "set"
    /\ CacheSet(call[c].ip, call[c].insight)
    /\ call' = Settled(call, c, Ok(call[c].insight))
    /\ Release(DedupKey(call[c].ip))
    /\ UNCHANGED <<env, now, reval>>

\* ------------------------------------------------------- revalidateIpInsight
RevalPrimary(r) ==
    /\ reval[r].pc = "primary"
    /\ \E o \in IpInfoOutcomes(reval[r].ip) :
         reval' = [reval EXCEPT ![r] =
                     IF o.kind = "ok"
                     THEN [@ EXCEPT !.pc = "set", !.insight = normalizeIpInfo(o.raw)]
                     ELSE [@ EXCEPT !.pc = "secondary"]]
    /\ UNCHANGED <<env, now, cache, written, pending, call>>

\* Variant of RevalSecondary: a revalidation that finds no insight evicts the
\* entry it could not refresh.
RevalSecondary_Evicts(r) ==
    /\ reval[r].pc = "secondary"
    /\ \E o \in RadarOutcomes(reval[r].ip) :
         IF o.kind = "ok"
         THEN /\ reval' = [reval EXCEPT ![r] = [@ EXCEPT !.pc = "set",
                                                         !.insight = normalizeRadar(o.raw)]]
              /\ UNCHANGED cache
         ELSE /\ reval' = [reval EXCEPT ![r] =
                             [IdleReval EXCEPT !.ip = reval[r].ip, !.outcome = "no-insight"]]
              /\ cache' = [cache EXCEPT ![reval[r].ip] = NoEntry]
    /\ UNCHANGED <<env, now, written, pending, call>>

\* Without an insight the task ends and nothing is written.
RevalSecondary(r) ==
    /\ reval[r].pc = "secondary"
    /\ \E o \in RadarOutcomes(reval[r].ip) :
         reval' = [reval EXCEPT ![r] =
                     IF o.kind = "ok"
                     THEN [@ EXCEPT !.pc = "set", !.insight = normalizeRadar(o.raw)]
                     ELSE [IdleReval EXCEPT !.ip = reval[r].ip, !.outcome = "no-insight"]]
    /\ UNCHANGED <<env, now, cache, written, pending, call>>

\* Variant of RevalStore: the task leaves an entry that is readable alone and
\* writes only where there is none.
RevalStore_KeepsPresent(r) ==
    /\ reval[r].pc = "set"
    /\ IF getWithStale(reval[r].ip).entry = NoEntry
       THEN CacheSet(reval[r].ip, reval[r].insight)
       ELSE UNCHANGED <<cache, written>>
    /\ reval' = [reval EXCEPT ![r] = [IdleReval EXCEPT !.ip = reval[r].ip,
                                                       !.outcome = "stored"]]
    /\ UNCHANGED <<env, now, pending, call>>

\* Variant of RevalStore: a write that fails is not caught by the task and
\* rejects the calls that were served the stale entry of the ip.
RevalStore_Uncaught(r) ==
    /\ reval[r].pc = "set"
    /\ \/ /\ CacheSet(reval[r].ip, reval[r].insight)
          /\ reval' = [reval EXCEPT ![r] = [IdleReval EXCEPT !.ip = reval[r].ip,
                                                             !.outcome = "stored"]]
          /\ UNCHANGED call
       \/ /\ reval' = [reval EXCEPT ![r] = [IdleReval EXCEPT !.ip = reval[r].ip,
                                                             !.outcome = "write-failed"]]
          /\ call' = [c \in Callers |->
                        IF call[c].served = "stale" /\ call[c].ip = reval[r].ip
                        THEN [call[c] EXCEPT !.result = ApiError(500)]
                        ELSE call[c]]
          /\ UNCHANGED <<cache, written>>
    /\ UNCHANGED <<env, now, pending>>

\* Variant of RevalStore: the write keeps the instant of the entry it replaces.
RevalStore_KeepsStoredAt(r) ==
    /\ reval[r].pc = "set"
    /\ \/ /\ cache' = [cache EXCEPT ![reval[r].ip] =
                          [data |-> reval[r].insight,
                           storedAt |-> IF @ = NoEntry THEN now ELSE @.storedAt]]
          /\ written' = [written EXCEPT ![reval[r].ip] = IF @ = -1 THEN now ELSE @]
          /\ reval' = [reval EXCEPT ![r] = [IdleReval EXCEPT !.ip = reval[r].ip,
                                                             !.outcome = "stored"]]
       \/ /\ reval' = [reval EXCEPT ![r] = [IdleReval EXCEPT !.ip = reval[r].ip,
                                                             !.outcome = "write-failed"]]
          /\ UNCHANGED <<cache, written>>
    /\ UNCHANGED <<env, now, pending, call>>

\* if (insight) await ipCache.set(ip, insight); a write that fails is caught
\* by the task's outer catch and logged.
RevalStore(r) ==
    /\ reval[r].pc = "set"
    /\ \/ /\ CacheSet(reval[r].ip, reval[r].insight)
          /\ reval' = [reval EXCEPT ![r] = [IdleReval EXCEPT !.ip = reval[r].ip,
                                                             !.outcome = "stored"]]
       \/ /\ reval' = [reval EXCEPT ![r] = [IdleReval EXCEPT !.ip = reval[r].ip,
                                                             !.outcome = "write-failed"]]
          /\ UNCHANGED <<cache, written>>
    /\ UNCHANGED <<env, now, pending, call>>

\* -------------------------------------------------------------------- clock
Tick ==
    /\ now < MaxNow
    /\ now' = now + 1
    /\ UNCHANGED <<env, cache, written, pending, call, reval>>

\* ------------------------------------------------- one provider request
\* fetchIpInfoWorker, fetchRadarWorker and verifyRadarToken followed await by
\* await through fetchWithTimeout: the timer armed before fetch, the headers,
\* the timer cleared when fetch settles, the body read by response.json().
Fns == {"ipinfo", "radar", "verify"}

Configured(fn) ==
    IF fn = "ipinfo" THEN env.IPINFO_TOKEN
    ELSE env.CLOUDFLARE_ACCOUNT_ID /\ env.CLOUDFLARE_RADAR_TOKEN

\* Variant of Rejected: verifyRadarToken has no catch around its request.
Rejected_Uncaught(p) ==
    [p EXCEPT !.pc = "done", !.timer = FALSE, !.out = [kind |-> "throw", value |-> "Error"]]

\* The request throws (rejected fetch, status check, json(), success check):
\* the two fetch functions pass the error on, verifyRadarToken catches it and
\* returns false.  The finally of fetchWithTimeout has cleared the timer.
Rejected(p) ==
    [p EXCEPT !.pc = "done", !.timer = FALSE,
              !.out = IF p.fn = "verify" THEN [kind |-> "return", value |-> "false"]
                      ELSE [kind |-> "throw", value |-> "Error"]]

ProbeStart(fn, answer) ==
    /\ probe.pc = "idle"
    /\ probe' = IF ~Configured(fn)
                THEN [probe EXCEPT !.pc = "done", !.fn = fn,
                                   !.out = [kind |-> "return",
                                            value |-> IF fn = "verify" THEN "false" ELSE "null"]]
                ELSE [probe EXCEPT !.pc = "headers", !.fn = fn, !.timer = TRUE, !.calls = 1,
                                   !.answer = answer]
    /\ UNCHANGED <<env, now, cache, written, pending, call, reval, req, warmer, kv, workerGlobal>>

\* Time passes for the request in flight; an armed timer goes off at
\* clientTimeout, so no time passes beyond it while the timer is armed.
ProbeTick ==
    /\ probe.pc \in {"headers", "body"}
    /\ probe.elapsed < MaxElapsed
    /\ probe.timer => probe.elapsed < clientTimeout
    /\ probe' = [probe EXCEPT !.elapsed = @ + 1]
    /\ UNCHANGED <<env, now, cache, written, pending, call, reval, req, warmer, kv, workerGlobal>>

\* setTimeout(() => controller.abort(), clientTimeout): fetch rejects.
ProbeAbort ==
    /\ probe.pc = "headers"
    /\ probe.timer /\ probe.elapsed >= clientTimeout
    /\ probe' = [Rejected(probe) EXCEPT !.timedOut = TRUE]
    /\ UNCHANGED <<env, now, cache, written, pending, call, reval, req, warmer, kv, workerGlobal>>

\* Variant of ProbeHeaders: the status of the response is not looked at.
ProbeHeaders_StatusIgnored ==
    /\ probe.pc = "headers"
    /\ probe.answer.headers # "none"
    /\ probe' = IF probe.answer.headers = "error" THEN Rejected(probe)
                ELSE [probe EXCEPT !.pc = "body", !.timer = FALSE]
    /\ UNCHANGED <<env, now, cache, written, pending, call, reval, req, warmer, kv, workerGlobal>>

\* fetch settles: rejected by a connection error, or resolved with the
\* response once its headers are in; the finally clears the timer.  A status
\* other than success ends the call (throw, or return false in
\* verifyRadarToken); otherwise the body is read next.
ProbeHeaders ==
    /\ probe.pc = "headers"
    /\ probe.answer.headers # "none"
    /\ probe' = CASE probe.answer.headers = "error" -> Rejected(probe)
                  [] probe.answer.headers = "bad" ->
                        [probe EXCEPT !.pc = "done", !.timer = FALSE,
                                      !.out = IF probe.fn = "verify"
                                              THEN [kind |-> "return", value |-> "false"]
                                              ELSE [kind |-> "throw", value |-> "Error"]]
                  [] OTHER -> [probe EXCEPT !.pc = "body", !.timer = FALSE]
    /\ UNCHANGED <<env, now, cache, written, pending, call, reval, req, warmer, kv, workerGlobal>>

\* await response.json() settles, and what follows it in each function.
ProbeBody ==
    /\ probe.pc = "body"
    /\ probe.answer.body # "stall"
    /\ probe' =
         IF probe.answer.body = "invalid" THEN Rejected(probe)
         ELSE CASE probe.fn = "ipinfo" ->
                     [probe EXCEPT !.pc = "done",
                                   !.out = [kind |-> "return",
                                            value |-> IF probe.answer.body = "object"
                                                      THEN "payload" ELSE "null"]]
                [] probe.fn = "radar" ->
                     IF ~probe.answer.success THEN Rejected(probe)
                     ELSE [probe EXCEPT !.pc = "done",
                                        !.out = [kind |-> "return",
                                                 value |-> IF probe.answer.body = "object"
                                                           THEN "payload" ELSE "null"]]
                [] OTHER ->
                     [probe EXCEPT !.pc = "done",
                                   !.out = [kind |-> "return",
                                            value |-> IF probe.answer.success
                                                      THEN "true" ELSE "false"]]
    /\ UNCHANGED <<env, now, cache, written, pending, call, reval, req, warmer, kv, workerGlobal>>

\* GET /api/health: awaits verifyRadarToken outside any try and answers
\* { status: 'ok', radarHealthy, ... }; an error thrown by the await would
\* leave the route to the framework's error response.
HealthRespond ==
    /\ probe.fn = "verify" /\ probe.pc = "done"
    /\ probe.health.http = 0
    /\ probe' = [probe EXCEPT !.health =
                    IF probe.out.kind = "throw"
                    THEN [http |-> 500, status |-> "", radarHealthy |-> ""]
                    ELSE [http |-> 200, status |-> "ok", radarHealthy |-> probe.out.value]]
    /\ UNCHANGED <<env, now, cache, written, pending, call, reval, req, warmer, kv, workerGlobal>>

NextClient ==
    \/ \E fn \in Fns, answer \in Responses : ProbeStart(fn, answer)
    \/ ProbeTick
    \/ ProbeAbort
    \/ ProbeHeaders
    \/ ProbeBody
    \/ HealthRespond

SpecClient == Init /\ [][NextClient]_vars

\* --------------------------------------------------------- worker routes
\* The lookup routes of the Hono app.  ParamRoutes take the address from the
\* path and test it; HeaderRoutes take the client's address from the headers.
ParamRoutes == {"/api/ip/:ip", "/api/v1/ip/:ip", "/api/v1/ip/:ip/enhanced"}
HeaderRoutes == {"/api/v1/ip", "/api/v1/ip/enhanced"}

\* The texts a request may carry as path parameter, as cf-connecting-ip ("" is
\* the header missing) and as x-forwarded-for (a comma-separated list, <<>> the
\* header missing).
ParamTexts == {"8.8.8.8", "not-an-ip"}
CfTexts == {"", "8.8.8.8"}
XffLists == {<<>>, <<"not-an-ip", "8.8.8.8">>}

\* The dot-separated parts of a text: the number a part of one to three
\* digits spells, -1 for any other part.
Parts(text) ==
    CASE text = "8.8.8.8" -> <<8, 8, 8, 8>>
      [] text = "1.1.1.1" -> <<1, 1, 1, 1>>
      [] text = "127.0.0.1" -> <<127, 0, 0, 1>>
      [] OTHER -> <<-1>>

\* /^(\d{1,3}\.){3}\d{1,3}$/.test(ip)
MatchesDottedQuad(text) ==
    /\ Len(Parts(text)) = 4
    /\ \A i \in 1..4 : Parts(text)[i] >= 0

\* cf-connecting-ip || x-forwarded-for?.split(',')[0] || '127.0.0.1'
ClientIp(cf, xff) ==
    IF cf # "" THEN cf
    ELSE IF xff # <<>> /\ xff[1] # "" THEN xff[1]
    ELSE "127.0.0.1"

\* The requests received and not yet closed.
OpenRequests == Cardinality({b \in Callers : call[b].pc # "idle"})

\* A route with :ip.  A parameter that fails the test is answered 400 and the
\* handler returns (the slot is spent on a request that made no call);
\* otherwise the handler calls lookupIpInsight and parks at its await.
RouteParam(c, route, text) ==
    /\ call[c].pc = "idle"
    /\ OpenRequests < MaxOpenRequests
    /\ IF text = "" \/ ~MatchesDottedQuad(text)
       THEN /\ \A b \in Callers : b < c => call[b].pc # "idle"
            /\ call' = [call EXCEPT ![c] = [@ EXCEPT !.pc = "rejected"]]
            /\ req' = [req EXCEPT ![c] = [route |-> route, status |-> 400]]
            /\ UNCHANGED <<env, now, cache, written, pending, reval>>
       ELSE /\ LookupStart(c, text)
            /\ req' = [req EXCEPT ![c] = [route |-> route, status |-> 0]]
    /\ UNCHANGED <<warmer, probe, kv, workerGlobal>>

\* A route without :ip: the address comes from the headers and goes to
\* lookupIpInsight as it is.
RouteHeader(c, route, cf, xff) ==
    /\ call[c].pc = "idle"
    /\ OpenRequests < MaxOpenRequests
    /\ LookupStart(c, ClientIp(cf, xff))
    /\ req' = [req EXCEPT ![c] = [route |-> route, status |-> 0]]
    /\ UNCHANGED <<warmer, probe, kv, workerGlobal>>

\* The await of lookupIpInsight settles: c.json(result) answers 200, and the
\* handler's catch answers every error with 500.
RouteRespond(c) ==
    /\ req[c].route \notin {"", "warmer"} /\ req[c].status = 0
    /\ call[c].pc = "done"
    /\ req' = [req EXCEPT ![c].status = IF call[c].result.kind = "ok" THEN 200 ELSE 500]
    /\ UNCHANGED <<env, now, cache, written, pending, call, reval, warmer, probe, kv, workerGlobal>>

\* The answer is sent and the request is over; its slot serves the next one.
RouteClose(c) ==
    /\ req[c].status # 0
    /\ req' = [req EXCEPT ![c] = IdleReq]
    /\ call' = [call EXCEPT ![c] = IdleCall]
    /\ UNCHANGED <<env, now, cache, written, pending, reval, warmer, probe, kv, workerGlobal>>

NextHttp ==
    \/ \E c \in Callers, route \in ParamRoutes, text \in ParamTexts : RouteParam(c, route, text)
    \/ \E c \in Callers, route \in HeaderRoutes, cf \in CfTexts, xff \in XffLists :
          RouteHeader(c, route, cf, xff)
    \/ \E c \in Callers : RouteRespond(c)
    \/ \E c \in Callers : RouteClose(c)
    \/ \E c \in Callers : LookupServeCached(c) /\ UNCHANGED ext
    \/ \E c \in Callers : LookupDeduplicate(c) /\ UNCHANGED ext
    \/ \E c \in Callers : FactoryRecheck(c) /\ UNCHANGED ext
    \/ \E c \in Callers : FactoryPrimary(c) /\ UNCHANGED ext
    \/ \E c \in Callers : FactorySecondary(c) /\ UNCHANGED ext
    \/ \E c \in Callers : FactoryStore(c) /\ UNCHANGED ext

SpecHttp == Init /\ [][NextHttp]_vars

\* ------------------------------------------------------------ cache warmer
isInProgress(w) == w.inProgress

\* The lowest run slot not running, 0 if every one is.
FreeRun(w) ==
    IF \E r \in Runs : w.run[r].pc = "idle"
    THEN CHOOSE r \in Runs : w.run[r].pc = "idle" /\ \A q \in Runs : q < r => w.run[q].pc # "idle"
    ELSE 0

\* Variant of warmCache: a call made while a run is in progress starts
\* another run.
warmCache_NoGuard(w, enabled) ==
    IF ~enabled THEN [w EXCEPT !.lastCall = "disabled", !.lastEnabled = enabled]
    ELSE IF FreeRun(w) = 0 THEN [w EXCEPT !.lastCall = "skipped", !.lastEnabled = enabled]
    ELSE [w EXCEPT !.inProgress = TRUE, !.warmedCount = 0, !.lastCall = "started", !.lastEnabled = enabled,
                   !.run[FreeRun(w)] = [IdleRun EXCEPT !.pc = "next", !.index = 1]]

\* Variant of warmCache: the enabled option is not looked at.
warmCache_IgnoresEnabled(w, enabled) ==
    IF isInProgress(w) \/ FreeRun(w) = 0 THEN [w EXCEPT !.lastCall = "skipped", !.lastEnabled = enabled]
    ELSE [w EXCEPT !.inProgress = TRUE, !.warmedCount = 0, !.lastCall = "started", !.lastEnabled = enabled,
                   !.run[FreeRun(w)] = [IdleRun EXCEPT !.pc = "next", !.index = 1]]

\* warmCache(lookupFn, {enabled, delayBetweenRequests}) up to its first
\* lookup: nothing when disabled, nothing when a run is in progress, otherwise
\* a run starts at the first candidate.
warmCache(w, enabled) ==
    IF ~enabled THEN [w EXCEPT !.lastCall = "disabled", !.lastEnabled = enabled]
    ELSE IF isInProgress(w) \/ FreeRun(w) = 0 THEN [w EXCEPT !.lastCall = "skipped", !.lastEnabled = enabled]
    ELSE [w EXCEPT !.inProgress = TRUE, !.warmedCount = 0, !.lastCall = "started", !.lastEnabled = enabled,
                   !.run[FreeRun(w)] = [IdleRun EXCEPT !.pc = "next", !.index = 1]]

\* The fetch handler without the assignment of line 341.
Fetch_FlagNeverSet(c, ip) ==
    /\ \A b \in Callers : call[b].pc # "idle" => req[b].route = "warmer"
    /\ LookupStart(c, ip)
    /\ req' = [req EXCEPT ![c] = [route |-> "/api/ip/:ip", status |-> 0]]
    /\ warmer' = IF ~warmer.ipCacheInitialized /\ warmer.IP_CACHE
                 THEN IF warmer.CACHE_WARMING_ENABLED
                      THEN warmCache(warmer, TRUE)
                      ELSE warmer
                 ELSE warmer
    /\ UNCHANGED <<probe, kv, workerGlobal>>

\* The fetch handler: on the first request of the isolate that finds the
\* IP_CACHE binding the flag is set and, with CACHE_WARMING_ENABLED 'true',
\* warmCache is called (not awaited); then the request is served, here a
\* lookup of ip.  Requests are taken one at a time, next to the warmer.
Fetch(c, ip) ==
    /\ \A b \in Callers : call[b].pc # "idle" => req[b].route = "warmer"
    /\ LookupStart(c, ip)
    /\ req' = [req EXCEPT ![c] = [route |-> "/api/ip/:ip", status |-> 0]]
    /\ warmer' = IF ~warmer.ipCacheInitialized /\ warmer.IP_CACHE
                 THEN IF warmer.CACHE_WARMING_ENABLED
                      THEN warmCache([warmer EXCEPT !.ipCacheInitialized = TRUE], TRUE)
                      ELSE [warmer EXCEPT !.ipCacheInitialized = TRUE]
                 ELSE warmer
    /\ UNCHANGED <<probe, kv, workerGlobal>>

\* The scheduled handler: warmCache is called whatever the configuration.
Scheduled ==
    /\ warmer' = warmCache(warmer, TRUE)
    /\ UNCHANGED <<env, now, cache, written, pending, call, reval, req, probe, kv, workerGlobal>>

\* Variant of WarmerLookup: the lookup is started and not awaited; the run
\* moves on to the next candidate at once.
WarmerLookup_NoAwait(r, c) ==
    /\ warmer.run[r].pc = "next"
    /\ LookupStart(c, WarmCandidates[warmer.run[r].index])
    /\ req' = [req EXCEPT ![c] = [route |-> "warmer", status |-> 0]]
    /\ warmer' = IF warmer.run[r].index = Len(WarmCandidates)
                 THEN [warmer EXCEPT !.run[r] = IdleRun, !.inProgress = FALSE]
                 ELSE [warmer EXCEPT !.run[r].index = @ + 1, !.run[r].lookup = c]
    /\ UNCHANGED <<probe, kv, workerGlobal>>

\* The run calls lookupFn for its candidate and parks at the await.
WarmerLookup(r, c) ==
    /\ warmer.run[r].pc = "next"
    /\ LookupStart(c, WarmCandidates[warmer.run[r].index])
    /\ req' = [req EXCEPT ![c] = [route |-> "warmer", status |-> 0]]
    /\ warmer' = [warmer EXCEPT !.run[r].pc = "await", !.run[r].lookup = c,
                                !.run[r].slept = FALSE]
    /\ UNCHANGED <<probe, kv, workerGlobal>>

\* Variant of WarmerSettled: a failed lookup ends the run.
WarmerSettled_Aborts(r) ==
    /\ warmer.run[r].pc = "await"
    /\ LET c == warmer.run[r].lookup IN
       /\ call[c].pc = "done"
       /\ warmer' =
            IF call[c].result.kind # "ok"
            THEN [warmer EXCEPT !.run[r] = IdleRun, !.inProgress = FALSE]
            ELSE IF warmer.run[r].index = Len(WarmCandidates)
            THEN [warmer EXCEPT !.warmedCount = @ + 1, !.run[r] = IdleRun,
                                !.inProgress = FALSE]
            ELSE [warmer EXCEPT !.warmedCount = @ + 1, !.run[r].pc = "sleep",
                                !.run[r].lookup = 0]
       /\ call' = [call EXCEPT ![c] = IdleCall]
       /\ req' = [req EXCEPT ![c] = IdleReq]
    /\ UNCHANGED <<env, now, cache, written, pending, reval, probe, kv, workerGlobal>>

\* The awaited lookup has settled: a success is counted, a failure is logged
\* and the run goes on; after the last candidate the run ends, otherwise it
\* sleeps delayBetweenRequests.  The call is over and its slot is free again.
WarmerSettled(r) ==
    /\ warmer.run[r].pc = "await"
    /\ LET c == warmer.run[r].lookup IN
       /\ call[c].pc = "done"
       /\ warmer' =
            LET w == [warmer EXCEPT !.warmedCount =
                         IF call[c].result.kind = "ok" THEN @ + 1 ELSE @] IN
            IF warmer.run[r].index = Len(WarmCandidates)
            THEN [w EXCEPT !.run[r] = IdleRun, !.inProgress = FALSE]
            ELSE [w EXCEPT !.run[r].pc = "sleep", !.run[r].lookup = 0]
       /\ call' = [call EXCEPT ![c] = IdleCall]
       /\ req' = [req EXCEPT ![c] = IdleReq]
    /\ UNCHANGED <<env, now, cache, written, pending, reval, probe, kv, workerGlobal>>

\* The delay has elapsed.
WarmerWake(r) ==
    /\ warmer.run[r].pc = "sleep"
    /\ warmer' = [warmer EXCEPT !.run[r].pc = "next", !.run[r].index = @ + 1,
                                !.run[r].slept = TRUE]
    /\ UNCHANGED <<env, now, cache, written, pending, call, reval, req, probe, kv, workerGlobal>>

\* warmCache called directly, with either value of the enabled option.
WarmCacheCall(enabled) ==
    /\ warmer' = warmCache(warmer, enabled)
    /\ UNCHANGED <<env, now, cache, written, pending, call, reval, req, probe, kv, workerGlobal>>

InitWarm ==
    /\ env \in {e \in Environments : e.IPINFO_TOKEN /\ e.CLOUDFLARE_ACCOUNT_ID = e.CLOUDFLARE_RADAR_TOKEN}
    /\ req = [c \in Callers |-> IdleReq]
    /\ warmer \in {[IdleWarmer EXCEPT !.IP_CACHE = a, !.CACHE_WARMING_ENABLED = b] :
                       a \in BOOLEAN, b \in BOOLEAN}
    /\ probe = IdleProbe
    /\ kv = EmptyKv
    /\ workerGlobal = FreshGlobal
    /\ now = 0
    /\ cache = [ip \in Addresses |-> NoEntry]
    /\ written = [ip \in Addresses |-> -1]
    /\ pending = [k \in DedupKeys |-> 0]
    /\ call = [c \in Callers |-> IdleCall]
    /\ reval = [r \in Revals |-> IdleReval]

NextWarm ==
    \/ \E c \in Callers, ip \in IPs : Fetch(c, ip)
    \/ Scheduled
    \/ \E r \in Runs, c \in Callers : WarmerLookup(r, c)
    \/ \E r \in Runs : WarmerSettled(r)
    \/ \E r \in Runs : WarmerWake(r)
    \/ \E c \in Callers : RouteRespond(c)
    \/ \E c \in Callers : RouteClose(c)
    \/ \E c \in Callers : LookupServeCached(c) /\ UNCHANGED ext
    \/ \E c \in Callers : LookupDeduplicate(c) /\ UNCHANGED ext
    \/ \E c \in Callers : FactoryRecheck(c) /\ UNCHANGED ext
    \/ \E c \in Callers : FactoryPrimary(c) /\ UNCHANGED ext
    \/ \E c \in Callers : FactorySecondary(c) /\ UNCHANGED ext
    \/ \E c \in Callers : FactoryStore(c) /\ UNCHANGED ext

SpecWarm == InitWarm /\ [][NextWarm]_vars

\* The worker and its warmer, the warmer also being called directly.
NextWarmApi ==
    \/ NextWarm
    \/ \E enabled \in BOOLEAN : WarmCacheCall(enabled)

SpecWarmApi == InitWarm /\ [][NextWarmApi]_vars

\* ------------------------------------------------------------ cache backends
\* The keys and values the two backends are driven with.
StoreKeys == {WarmCandidates[i] : i \in 1..Len(WarmCandidates)}
StoreValues(key) == {normalizeIpInfo(p) : p \in IpInfoPayloads(key)}

\* Memory backend: cache is its map, getWithStale and CacheSet its operations;
\* get answers the entry while it is fresh.
memoryGet(key) ==
    LET r == getWithStale(key) IN
    IF r.entry # NoEntry /\ ~r.isStale THEN r.entry ELSE NoEntry

\* The platform store: a value is kept until its expiration and is gone after.
kvPut(key, value, expirationTtl) ==
    kv' = [kv EXCEPT ![key] = [value |-> value, expiration |-> now + expirationTtl]]

kvRead(key) ==
    IF kv[key] = NoRecord \/ now > kv[key].expiration THEN NoEntry ELSE kv[key].value

\* Variant of durableSet: the entry is persisted for the fresh window only.
durableSet_FreshTtl(key, insight) ==
    kvPut(key, [data |-> insight, storedAt |-> now], ttlMs)

\* Durable backend: the entry is persisted with the store's own TTL field set
\* to staleTtlMs; a read takes what the store still has and derives isStale
\* from storedAt.
durableSet(key, insight) ==
    kvPut(key, [data |-> insight, storedAt |-> now], staleTtlMs)

durableGetWithStale(key) ==
    LET e == kvRead(key) IN
    IF e = NoEntry THEN [entry |-> NoEntry, isStale |-> FALSE]
    ELSE [entry |-> e, isStale |-> Age(e) > ttlMs]

durableGet(key) ==
    LET r == durableGetWithStale(key) IN
    IF r.entry # NoEntry /\ ~r.isStale THEN r.entry ELSE NoEntry

\* set(key, value) on both backends at the same instant.
StoreSet(key, insight) ==
    /\ CacheSet(key, insight)
    /\ durableSet(key, insight)
    /\ UNCHANGED <<env, now, pending, call, reval, req, warmer, probe, workerGlobal>>

InitStore ==
    /\ Init
    /\ ~env.IPINFO_TOKEN /\ ~env.CLOUDFLARE_ACCOUNT_ID /\ ~env.CLOUDFLARE_RADAR_TOKEN

NextStore ==
    \/ \E key \in StoreKeys : \E insight \in StoreValues(key) : StoreSet(key, insight)
    \/ Tick /\ UNCHANGED ext

SpecStore == InitStore /\ [][NextStore]_vars

\* ------------------------------------------------- the isolate's service handle
\* Variant of getWorkerIpService: a service for every event.
getWorkerIpService_PerEvent(g, e) ==
    [g EXCEPT !.workerServices = createWorkerIpService(e, g.created + 1),
              !.created = g.created + 1]

getWorkerIpService(g, e) ==
    IF g.workerServices = NoServices
    THEN [g EXCEPT !.workerServices = createWorkerIpService(e, g.created + 1),
                   !.created = g.created + 1]
    ELSE g

\* GET /api/health with env e: the handler takes the service, then reports
\* c.env.CACHE_BACKEND ?? 'kv' as the cache backend.
Health(e) ==
    /\ LET g == getWorkerIpService(workerGlobal, e) IN
        workerGlobal' =
            [g EXCEPT !.first = IF workerGlobal.handled = NoHandler THEN e ELSE @,
                      !.handled = [route |-> "/api/health",
                                   instance |-> g.workerServices.instance,
                                   backend |-> IF e.CACHE_BACKEND.defined
                                               THEN e.CACHE_BACKEND ELSE KvText]]
    /\ UNCHANGED <<env, now, cache, written, pending, call, reval, req, warmer, probe, kv>>

\* Every other handler with env e (the fetch handler itself, a lookup route,
\* the scheduled handler): it takes the service and works with it.
Handle(route, e) ==
    /\ route # "/api/health"
    /\ LET g == getWorkerIpService(workerGlobal, e) IN
        workerGlobal' =
            [g EXCEPT !.first = IF workerGlobal.handled = NoHandler THEN e ELSE @,
                      !.handled = [route |-> route,
                                   instance |-> g.workerServices.instance,
                                   backend |-> Unset]]
    /\ UNCHANGED <<env, now, cache, written, pending, call, reval, req, warmer, probe, kv>>

NextIsolate ==
    \/ \E e \in IsolateEnvs : Health(e)
    \/ \E route \in Routes, e \in IsolateEnvs : Handle(route, e)

InitIsolate ==
    /\ Init
    /\ ~env.IPINFO_TOKEN /\ ~env.CLOUDFLARE_ACCOUNT_ID /\ ~env.CLOUDFLARE_RADAR_TOKEN

SpecIsolate == InitIsolate /\ [][NextIsolate]_vars

\* A provider answers the request of call c with ok headers and a body that
\* never arrives: response.json() is awaited with the abort timer cleared, so
\* the call stays where it is.
FactoryStall(c) ==
    /\ IF call[c].pc = "primary"
       THEN \E a \in Responses, p \in IpInfoPayloads(call[c].ip) :
               fetchIpInfoWorker(a, p).kind = "hang"
       ELSE /\ call[c].pc = "secondary"
            /\ \E a \in Responses, p \in RadarPayloads(call[c].ip) :
                  fetchRadarWorker(a, p).kind = "hang"
    /\ call' = [call EXCEPT ![c].pc = "stalled"]
    /\ UNCHANGED <<env, now, cache, written, pending, reval>>

\* The worker with its warmer, in an isolate with the cache binding, warming
\* enabled and both providers configured, under a scheduler that runs every
\* continuation that is ready: each step of a call and of a warming run is
\* taken once it stays enabled.  Requests, scheduled events and what the
\* providers answer are the environment's.
InitWarmLive ==
    /\ InitWarm
    /\ env.CLOUDFLARE_ACCOUNT_ID
    /\ warmer.IP_CACHE /\ warmer.CACHE_WARMING_ENABLED

NextWarmLive ==
    \/ NextWarm
    \/ \E c \in Callers : FactoryStall(c) /\ UNCHANGED ext

FairWarmLive ==
    /\ \A r \in Runs : WF_vars(\E c \in Callers : WarmerLookup(r, c))
    /\ \A r \in Runs : WF_vars(WarmerSettled(r))
    /\ \A r \in Runs : WF_vars(WarmerWake(r))
    /\ \A c \in Callers : WF_vars(LookupServeCached(c) /\ UNCHANGED ext)
    /\ \A c \in Callers : WF_vars(LookupDeduplicate(c) /\ UNCHANGED ext)
    /\ \A c \in Callers : WF_vars(FactoryRecheck(c) /\ UNCHANGED ext)
    /\ \A c \in Callers : WF_vars(FactoryPrimary(c) /\ UNCHANGED ext)
    /\ \A c \in Callers : WF_vars(FactorySecondary(c) /\ UNCHANGED ext)
    /\ \A c \in Callers : WF_vars(FactoryStore(c) /\ UNCHANGED ext)

SpecWarmLive == InitWarmLive /\ [][NextWarmLive]_vars /\ FairWarmLive

\* The worker with its background work: requests, the warming run of the cold
\* start and the revalidations that stale reads start.  The isolate is a fresh
\* one with the cache binding, warming enabled and both providers configured;
\* the store behind the binding outlives isolates, so the entry of an ip is
\* absent or was written earlier and is stale by now.
InitBackground ==
    /\ env \in {e \in Environments :
                  e.IPINFO_TOKEN /\ e.CLOUDFLARE_ACCOUNT_ID /\ e.CLOUDFLARE_RADAR_TOKEN}
    /\ req = [c \in Callers |-> IdleReq]
    /\ warmer = [IdleWarmer EXCEPT !.IP_CACHE = TRUE, !.CACHE_WARMING_ENABLED = TRUE]
    /\ probe = IdleProbe
    /\ kv = EmptyKv
    /\ workerGlobal = FreshGlobal
    /\ now = ttlMs + 1
    /\ \E stored \in SUBSET IPs :
          /\ cache = [ip \in Addresses |->
                        IF ip \in stored
                        THEN [data |-> [ip |-> ip, country |-> "US"], storedAt |-> 0]
                        ELSE NoEntry]
          /\ written = [ip \in Addresses |-> IF ip \in stored THEN 0 ELSE -1]
    /\ pending = [k \in DedupKeys |-> 0]
    /\ call = [c \in Callers |-> IdleCall]
    /\ reval = [r \in Revals |-> IdleReval]

NextBackground ==
    \/ \E c \in Callers, ip \in IPs : Fetch(c, ip)
    \/ \E r \in Runs, c \in Callers : WarmerLookup(r, c)
    \/ \E r \in Runs : WarmerSettled(r)
    \/ \E r \in Runs : WarmerWake(r)
    \/ \E c \in Callers : RouteRespond(c)
    \/ \E c \in Callers : RouteClose(c)
    \/ \E c \in Callers : LookupServeCached(c) /\ UNCHANGED ext
    \/ \E c \in Callers : LookupDeduplicate(c) /\ UNCHANGED ext
    \/ \E c \in Callers : FactoryRecheck(c) /\ UNCHANGED ext
    \/ \E c \in Callers : FactoryPrimary(c) /\ UNCHANGED ext
    \/ \E c \in Callers : FactorySecondary(c) /\ UNCHANGED ext
    \/ \E c \in Callers : FactoryStore(c) /\ UNCHANGED ext
    \/ \E r \in Revals : RevalPrimary(r) /\ UNCHANGED ext
    \/ \E r \in Revals : RevalSecondary(r) /\ UNCHANGED ext
    \/ \E r \in Revals : RevalStore(r) /\ UNCHANGED ext

SpecBackground == InitBackground /\ [][NextBackground]_vars

\* ------------------------------------------- the durable store across isolates
\* An entry that another isolate put into the durable store at instant 0
\* becomes readable here: the store is shared by the isolates and is
\* eventually consistent, so a read may miss an entry that a later read finds.
PeerEntryVisible(ip, insight) ==
    /\ cache[ip] = NoEntry
    /\ cache' = [cache EXCEPT ![ip] = [data |-> insight, storedAt |-> 0]]
    /\ written' = [written EXCEPT ![ip] = 0]
    /\ UNCHANGED <<env, now, pending, call, reval>>

\* An isolate that looks addresses up, with both providers configured, at an
\* instant where an entry stored at 0 is stale.
InitShared ==
    /\ env \in {e \in Environments :
                  e.IPINFO_TOKEN /\ e.CLOUDFLARE_ACCOUNT_ID /\ e.CLOUDFLARE_RADAR_TOKEN}
    /\ req = [c \in Callers |-> IdleReq]
    /\ warmer = IdleWarmer
    /\ probe = IdleProbe
    /\ kv = EmptyKv
    /\ workerGlobal = FreshGlobal
    /\ now = ttlMs + 1
    /\ cache = [ip \in Addresses |-> NoEntry]
    /\ written = [ip \in Addresses |-> -1]
    /\ pending = [k \in DedupKeys |-> 0]
    /\ call = [c \in Callers |-> IdleCall]
    /\ reval = [r \in Revals |-> IdleReval]

NextShared ==
    \/ \E ip \in IPs : \E raw \in IpInfoPayloads(ip) :
            PeerEntryVisible(ip, normalizeIpInfo(raw)) /\ UNCHANGED ext
    \/ \E c \in Callers, ip \in IPs : LookupStart(c, ip) /\ UNCHANGED ext
    \/ \E c \in Callers : LookupServeCached(c) /\ UNCHANGED ext
    \/ \E c \in Callers : LookupDeduplicate(c) /\ UNCHANGED ext
    \/ \E c \in Callers : FactoryRecheck(c) /\ UNCHANGED ext
    \/ \E c \in Callers : FactoryPrimary(c) /\ UNCHANGED ext
    \/ \E c \in Callers : FactorySecondary(c) /\ UNCHANGED ext
    \/ \E c \in Callers : FactoryStore(c) /\ UNCHANGED ext
    \/ \E r \in Revals : RevalPrimary(r) /\ UNCHANGED ext
    \/ \E r \in Revals : RevalSecondary(r) /\ UNCHANGED ext
    \/ \E r \in Revals : RevalStore(r) /\ UNCHANGED ext

SpecShared == InitShared /\ [][NextShared]_vars

Next ==
    \/ \E c \in Callers, ip \in IPs : LookupStart(c, ip) /\ UNCHANGED ext
    \/ \E c \in Callers : LookupServeCached(c) /\ UNCHANGED ext
    \/ \E c \in Callers : LookupDeduplicate(c) /\ UNCHANGED ext
    \/ \E c \in Callers : FactoryRecheck(c) /\ UNCHANGED ext
    \/ \E c \in Callers : FactoryPrimary(c) /\ UNCHANGED ext
    \/ \E c \in Callers : FactorySecondary(c) /\ UNCHANGED ext
    \/ \E c \in Callers : FactoryStore(c) /\ UNCHANGED ext
    \/ \E r \in Revals : RevalPrimary(r) /\ UNCHANGED ext
    \/ \E r \in Revals : RevalSecondary(r) /\ UNCHANGED ext
    \/ \E r \in Revals : RevalStore(r) /\ UNCHANGED ext
    \/ Tick /\ UNCHANGED ext

Spec == Init /\ [][Next]_vars

\* The lookup pipeline under a scheduler that runs every continuation that is
\* ready: each step of a call and of a revalidation is taken once it stays
\* enabled.  Every provider request settles or times out.  New calls and the
\* clock are the environment's.
FairLive ==
    /\ \A c \in Callers : WF_vars(LookupServeCached(c) /\ UNCHANGED ext)
    /\ \A c \in Callers : WF_vars(LookupDeduplicate(c) /\ UNCHANGED ext)
    /\ \A c \in Callers : WF_vars(FactoryRecheck(c) /\ UNCHANGED ext)
    /\ \A c \in Callers : WF_vars(FactoryPrimary(c) /\ UNCHANGED ext)
    /\ \A c \in Callers : WF_vars(FactorySecondary(c) /\ UNCHANGED ext)
    /\ \A c \in Callers : WF_vars(FactoryStore(c) /\ UNCHANGED ext)
    /\ \A r \in Revals : WF_vars(RevalPrimary(r) /\ UNCHANGED ext)
    /\ \A r \in Revals : WF_vars(RevalSecondary(r) /\ UNCHANGED ext)
    /\ \A r \in Revals : WF_vars(RevalStore(r) /\ UNCHANGED ext)

SpecLive == Init /\ [][Next]_vars /\ FairLive

\* =================================================================== claims
FactoryPcs == {"recheck", "primary", "secondary", "set"}
ProviderPcs == {"primary", "secondary"}

\* The calls for ip that started while ip had never been cached and before
\* any of them settled: the concurrent calls of a cold miss.
Herd(ip) == {c \in Callers : call[c].ip = ip /\ call[c].herd}

\* The callers whose own factory went past the re-check to the providers.
Resolvers(S) == {c \in S : call[c].p1 # "none"}

RECURSIVE SumOver(_, _)
SumOver(f, S) == IF S = {} THEN 0 ELSE LET x == CHOOSE y \in S : TRUE IN f[x] + SumOver(f, S \ {x})

PrimaryCalls(S) == SumOver([c \in Callers |-> call[c].n1], S)
SecondaryCalls(S) == SumOver([c \in Callers |-> call[c].n2], S)

HerdSettled(ip) == Herd(ip) # {} /\ \A c \in Herd(ip) : call[c].pc = "done"

\* C1 as stated: whenever the concurrent calls for a never-cached ip have all
\* settled, exactly one of them ran the provider sequence and all of them
\* hold the same outcome.
C1_Original ==
    \A ip \in IPs :
        HerdSettled(ip) =>
            /\ Cardinality(Resolvers(Herd(ip))) = 1
            /\ \A c, d \in Herd(ip) : call[c].result = call[d].result

\* C1 amended: when no resolution of the concurrent calls failed and all of
\* them have settled no later than ttlMs after the insight was stored, exactly
\* one of them ran the provider sequence, each provider was called at most
\* once, the cache was written once and every call holds the stored insight.
C1_DedupOnSuccess ==
    \A ip \in IPs :
        ( /\ HerdSettled(ip)
          /\ \A c \in Herd(ip) : call[c].result.kind = "ok"
          /\ now - written[ip] <= ttlMs )
        => /\ Cardinality(Resolvers(Herd(ip))) = 1
           /\ PrimaryCalls(Herd(ip)) <= 1
           /\ SecondaryCalls(Herd(ip)) <= 1
           /\ PrimaryCalls(Herd(ip)) + SecondaryCalls(Herd(ip)) >= 1
           /\ cache[ip].storedAt = written[ip]
           /\ \A c \in Herd(ip) : call[c].result = Ok(cache[ip].data)

\* Three concurrent cold calls settled with one insight: the resolver, a
\* caller attached to its ticket and a caller that entered the deduplicator
\* after the ticket was released and was answered by the re-check.
C1_Witness ==
    \E ip \in IPs :
        /\ HerdSettled(ip)
        /\ \A c \in Herd(ip) : call[c].result.kind = "ok"
        /\ now - written[ip] <= ttlMs
        /\ \E c, w, l \in Herd(ip) :
              /\ call[c].ticket = c /\ call[c].p1 # "none"
              /\ call[w].ticket = c /\ w # c
              /\ call[l].ticket = l /\ call[l].p1 = "none"

\* Revalidations of ip in flight.
ActiveRevals(ip) == {r \in Revals : reval[r].pc # "idle" /\ reval[r].ip = ip}

\* Caller c takes a step of its own call.
Starts(c) == call[c].pc = "idle" /\ call'[c].pc # "idle"
Branches(c) == call[c].pc = "branch" /\ call'[c].pc # "branch"

\* C2 (P3, stale-serve): a first read that finds an entry of age in
\* (ttlMs, staleTtlMs] hands that entry to the caller marked stale; the caller
\* then returns the entry's data in its next step, without entering the
\* deduplicator and without any provider call of its own, and that step adds
\* exactly one revalidation of ip to those in flight and leaves the cache and
\* the pending set alone.
C2_StaleServe ==
    [][\A c \in Callers :
        /\ ( /\ Starts(c)
              /\ cache[call'[c].ip] # NoEntry
              /\ Age(cache[call'[c].ip]) > ttlMs
              /\ Age(cache[call'[c].ip]) <= staleTtlMs )
           => /\ call'[c].cached = cache[call'[c].ip]
              /\ call'[c].isStale
        /\ (Branches(c) /\ call[c].cached # NoEntry /\ call[c].isStale)
           => /\ call'[c].pc = "done"
              /\ call'[c].result = Ok(call[c].cached.data)
              /\ call'[c].ticket = 0 /\ call'[c].n1 = 0 /\ call'[c].n2 = 0
              /\ ActiveRevals(call[c].ip) \subseteq ActiveRevals(call[c].ip)'
              /\ Cardinality(ActiveRevals(call[c].ip)') = Cardinality(ActiveRevals(call[c].ip)) + 1
              /\ \A r \in ActiveRevals(call[c].ip)' \ ActiveRevals(call[c].ip) :
                    reval'[r].pc = "primary"
              /\ UNCHANGED <<cache, pending>>
    ]_vars

\* A caller was served a stale entry while the revalidation it started is in
\* flight.
C2_Witness ==
    \E c \in Callers :
        /\ call[c].pc = "done" /\ call[c].served = "stale"
        /\ call[c].result.kind = "ok"
        /\ \E r \in Revals : reval[r].pc = "primary" /\ reval[r].ip = call[c].ip

\* C3 (P2, freshness): a first read that finds an entry of age at most ttlMs
\* hands that entry to the caller marked fresh; the caller then returns the
\* entry's data in its next step, with no provider call, no revalidation
\* started, no cache write and no deduplicator entry.
C3_Freshness ==
    [][\A c \in Callers :
        /\ ( /\ Starts(c)
              /\ cache[call'[c].ip] # NoEntry
              /\ Age(cache[call'[c].ip]) <= ttlMs )
           => /\ call'[c].cached = cache[call'[c].ip]
              /\ ~call'[c].isStale
              /\ UNCHANGED <<cache, pending, reval>>
        /\ (Branches(c) /\ call[c].cached # NoEntry /\ ~call[c].isStale)
           => /\ call'[c].pc = "done"
              /\ call'[c].result = Ok(call[c].cached.data)
              /\ call'[c].ticket = 0 /\ call'[c].n1 = 0 /\ call'[c].n2 = 0
              /\ UNCHANGED <<cache, written, pending, reval>>
    ]_vars

\* A caller was served a fresh entry at the last instant of the fresh window.
C3_Witness ==
    \E c \in Callers :
        /\ call[c].pc = "done" /\ call[c].served = "fresh"
        /\ cache[call[c].ip] # NoEntry
        /\ Age(cache[call[c].ip]) = ttlMs
        /\ call[c].result = Ok(cache[call[c].ip].data)

\* C4 (P4, expiry): with an entry older than staleTtlMs in the store, the
\* first read hands the caller no entry, exactly as for an ip never cached;
\* a caller without an entry enters the deduplicator; and the factory's
\* re-check of such an entry goes on to the providers.
C4_Expiry ==
    [][\A c \in Callers :
        /\ ( /\ Starts(c)
              /\ cache[call'[c].ip] # NoEntry
              /\ Age(cache[call'[c].ip]) > staleTtlMs )
           => /\ call'[c].cached = NoEntry
              /\ ~call'[c].isStale
        /\ (Branches(c) /\ call[c].cached = NoEntry)
           => /\ call'[c].pc \in {"waiting", "recheck"}
              /\ call'[c].result = NoResult
        /\ ( /\ call[c].pc = "recheck" /\ call'[c].pc # "recheck"
              /\ cache[call[c].ip] # NoEntry
              /\ Age(cache[call[c].ip]) > staleTtlMs )
           => /\ call'[c].pc = "primary"
              /\ call'[c].result = NoResult
    ]_vars

\* A caller is on the provider path while the expired entry is still stored.
C4_Witness ==
    \E c \in Callers :
        /\ call[c].pc = "primary" /\ ~call[c].herd
        /\ cache[call[c].ip] # NoEntry
        /\ Age(cache[call[c].ip]) > staleTtlMs

Failed(kind) == kind \in {"fail", "absent"}

\* C5 (P5, fallback order): a factory that stores an insight after a failed
\* primary call and a successful secondary call has made exactly one call to
\* each provider; its store step writes the normalized secondary payload to
\* the cache at the current instant and the call returns that same insight.
C5_FallbackOrder ==
    [][\A c \in Callers :
        (call[c].pc = "set" /\ call'[c].pc # "set" /\ call[c].p1 = "fail" /\ call[c].p2 = "ok")
        => /\ call[c].raw \in RadarPayloads(call[c].ip)
           /\ call'[c].pc = "done"
           /\ call'[c].result = Ok(normalizeRadar(call[c].raw))
           /\ cache'[call[c].ip] = [data |-> normalizeRadar(call[c].raw), storedAt |-> now]
           /\ call'[c].n1 = 1 /\ call'[c].n2 = 1
    ]_vars

\* A call has returned the secondary provider's insight after the primary
\* failed, and the cache holds it.
C5_Witness ==
    \E c \in Callers :
        /\ call[c].pc = "done" /\ call[c].p1 = "fail" /\ call[c].p2 = "ok"
        /\ call[c].result.kind = "ok"
        /\ cache[call[c].ip].data = call[c].result.data
        /\ call[c].n1 = 1 /\ call[c].n2 = 1

\* C6 (P6, total failure): a secondary step that ends without an insight,
\* after a primary that failed or was unconfigured, settles the call with
\* ApiError 502; and no step of a call's factory before its store step, and
\* no step of a call outside the factory, changes the cache.
C6_TotalFailure ==
    [][\A c \in Callers :
        /\ (call[c].pc = "secondary" /\ call'[c] # call[c] /\ Failed(call'[c].p2))
           => /\ Failed(call[c].p1)
              /\ call'[c].pc = "done"
              /\ call'[c].result = ApiError(502)
              /\ UNCHANGED <<cache, written>>
        /\ (call[c].pc \in {"idle", "branch", "recheck", "primary", "secondary"}
              /\ call'[c] # call[c])
           => UNCHANGED <<cache, written>>
    ]_vars

\* A call has failed with 502 after one provider failed and the other was
\* unconfigured or failed, with an entry in the cache that it left alone.
C6_Witness ==
    \E c \in Callers :
        /\ call[c].pc = "done" /\ call[c].ticket = c
        /\ Failed(call[c].p1) /\ call[c].p2 = "fail"
        /\ call[c].result = ApiError(502)
        /\ cache[call[c].ip] # NoEntry

\* Provider sequences of ip in flight: factories and revalidations parked at
\* a provider call.
ResolvingCalls(ip) == {c \in Callers : call[c].ip = ip /\ call[c].pc \in ProviderPcs}
ResolvingRevals(ip) == {r \in Revals : reval[r].ip = ip /\ reval[r].pc \in ProviderPcs}

\* C7 as stated: for each ip at most one provider sequence is in flight,
\* factories and background revalidations counted together.
C7_Original ==
    \A ip \in IPs : Cardinality(ResolvingCalls(ip)) + Cardinality(ResolvingRevals(ip)) <= 1

\* C7 amended: for each ip at most one deduplicated factory is running (from
\* its registration to its settlement); background revalidations run outside
\* the deduplicator and are not counted.
C7_OneFactoryPerKey ==
    \A ip \in IPs :
        Cardinality({c \in Callers : call[c].ip = ip /\ call[c].pc \in FactoryPcs}) <= 1

\* A factory is at its provider calls while another caller of the same ip is
\* attached to its ticket.
C7_Witness ==
    \E c, w \in Callers :
        /\ call[c].pc \in ProviderPcs
        /\ call[w].pc = "waiting" /\ call[w].ticket = c /\ call[w].ip = call[c].ip

\* C8 (deduplicator sharing): at most one factory runs per key; a deduplicate
\* call made while the key is pending attaches to the pending ticket and
\* starts no factory; a caller attached to
\* a ticket has made no provider call, its ticket's owner is running the
\* factory registered under the key, and it settles in the step in which the
\* owner settles and with the owner's outcome, value or failure.
C8_Sharing ==
    /\ [](\A ip \in IPs :
            Cardinality({c \in Callers : call[c].ip = ip /\ call[c].pc \in FactoryPcs}) <= 1)
    /\ [](\A w \in Callers :
            call[w].pc = "waiting"
            => /\ call[w].ticket # w
               /\ call[call[w].ticket].pc \in FactoryPcs
               /\ call[call[w].ticket].ip = call[w].ip
               /\ pending[DedupKey(call[w].ip)] = call[w].ticket)
    /\ [][\A w \in Callers :
            /\ (Branches(w) /\ call[w].cached = NoEntry /\ HasPending(DedupKey(call[w].ip)))
               => /\ call'[w].pc = "waiting"
                  /\ call'[w].ticket = pending[DedupKey(call[w].ip)]
                  /\ UNCHANGED pending
            /\ (call[w].pc = "waiting" /\ call'[w] # call[w])
               => /\ call'[w].pc = "done"
                  /\ call[call[w].ticket].pc \in FactoryPcs
                  /\ call'[call[w].ticket].pc = "done"
                  /\ call'[w].result = call'[call[w].ticket].result
                  /\ call'[w].result # NoResult
                  /\ call'[w].p1 = "none" /\ call'[w].n1 = 0 /\ call'[w].n2 = 0
       ]_vars

\* Two callers settled on one ticket with the owner's failure.
C8_Witness ==
    \E c, w \in Callers :
        /\ w # c /\ call[w].ticket = c /\ call[c].ticket = c
        /\ call[w].pc = "done" /\ call[c].pc = "done"
        /\ call[w].result = ApiError(502) /\ call[c].result = ApiError(502)

\* C9 (deduplicator release): a key is pending only while its owner's factory
\* is running, so the step that settles the factory, by value or by failure,
\* removes the key; a deduplicate call that finds no pending key starts its
\* own factory under a new ticket.
C9_Release ==
    /\ [](\A ip \in IPs :
            HasPending(DedupKey(ip))
            => /\ call[pending[DedupKey(ip)]].pc \in FactoryPcs
               /\ call[pending[DedupKey(ip)]].ip = ip)
    /\ [][\A c \in Callers :
            /\ (call[c].pc \in FactoryPcs /\ call'[c].pc = "done")
               => ~HasPending(DedupKey(call[c].ip))'
            /\ (Branches(c) /\ call[c].cached = NoEntry /\ ~HasPending(DedupKey(call[c].ip)))
               => /\ call'[c].pc = "recheck"
                  /\ call'[c].ticket = c
                  /\ pending'[DedupKey(call[c].ip)] = c
       ]_vars

\* A later caller runs a factory of its own after an earlier ticket for the
\* same key settled with a failure.
C9_Witness ==
    \E c, l \in Callers :
        /\ c # l /\ call[c].ip = call[l].ip
        /\ call[c].pc = "done" /\ call[c].ticket = c /\ call[c].result = ApiError(502)
        /\ call[l].pc \in ProviderPcs /\ call[l].ticket = l
        /\ pending[DedupKey(call[l].ip)] = l

\* C10: a revalidation step at a provider call never changes the cache; one
\* that ends without an insight ends the task and leaves the entry of its ip,
\* data and storedAt, as it was.
C10_RevalidationFailureKeepsEntry ==
    [][\A r \in Revals :
        (reval[r].pc \in ProviderPcs /\ reval'[r] # reval[r])
        => /\ UNCHANGED <<cache, written>>
           /\ (reval'[r].pc = "idle" => reval'[r].outcome = "no-insight")
    ]_vars

\* A revalidation has ended without an insight and the entry it was started
\* for is still served as stale.
C10_Witness ==
    \E r \in Revals :
        /\ reval[r].pc = "idle" /\ reval[r].outcome = "no-insight"
        /\ getWithStale(reval[r].ip).entry # NoEntry
        /\ getWithStale(reval[r].ip).isStale
\* ------------------------------------------------------------------- C14
\* What a read of ip at this instant is to answer, from the instant the stored
\* entry was written: "fresh", "stale" or "absent".
WindowOf(ip) ==
    IF cache[ip] = NoEntry THEN "absent"
    ELSE IF now - cache[ip].storedAt <= ttlMs THEN "fresh"
    ELSE IF now - cache[ip].storedAt <= staleTtlMs THEN "stale"
    ELSE "absent"

\* C14: getWithStale returns the stored entry with isStale = false while its
\* age is within ttlMs, the stored entry with isStale = true while its age is
\* above ttlMs and within staleTtlMs, and no entry when nothing was stored or
\* the age exceeds staleTtlMs; the first read of every lookup receives exactly
\* that answer.
C14_GetWithStale ==
    /\ [](\A ip \in Addresses :
            getWithStale(ip) =
                CASE WindowOf(ip) = "fresh" -> [entry |-> cache[ip], isStale |-> FALSE]
                  [] WindowOf(ip) = "stale" -> [entry |-> cache[ip], isStale |-> TRUE]
                  [] OTHER -> [entry |-> NoEntry, isStale |-> FALSE])
    /\ [][\A c \in Callers :
            Starts(c) =>
                /\ call'[c].cached =
                       (IF WindowOf(call'[c].ip) = "absent" THEN NoEntry ELSE cache[call'[c].ip])
                /\ call'[c].isStale = (WindowOf(call'[c].ip) = "stale")
       ]_vars

\* A lookup holds an entry it read as stale at the last instant of the stale
\* window, and another one an entry it read as fresh at the last instant of
\* the fresh window.
C14_Witness ==
    /\ \E c \in Callers :
          /\ call[c].pc = "branch" /\ call[c].isStale
          /\ Age(call[c].cached) = staleTtlMs
    /\ \E c \in Callers :
          /\ call[c].pc = "done" /\ call[c].served = "fresh"
          /\ written[call[c].ip] # -1

\* ------------------------------------------------------------------- C15
IpInfoConfigured == env.IPINFO_TOKEN
RadarConfigured == env.CLOUDFLARE_ACCOUNT_ID /\ env.CLOUDFLARE_RADAR_TOKEN

\* C15: a provider whose credentials are missing returns absent without a
\* network call, whatever the network would answer, and that is no error: the
\* lookup (and the revalidation) goes on to the next provider.  With only the
\* secondary provider configured a lookup makes no primary call, and one that
\* gets a payload from the secondary settles with its normalized insight.
C15_ConfigAbsent ==
    /\ [](\A ip \in Addresses :
            /\ ~IpInfoConfigured =>
                  IpInfoOutcomes(ip) = {[kind |-> "absent", raw |-> NoPayload, calls |-> 0]}
            /\ ~RadarConfigured =>
                  RadarOutcomes(ip) = {[kind |-> "absent", raw |-> NoPayload, calls |-> 0]})
    /\ [][/\ \A c \in Callers :
              /\ (call[c].pc = "primary" /\ call'[c] # call[c] /\ ~IpInfoConfigured)
                 => /\ call'[c].pc = "secondary"
                    /\ call'[c].p1 = "absent" /\ call'[c].n1 = 0
                    /\ call'[c].result = NoResult
              /\ (call[c].pc = "secondary" /\ call'[c] # call[c] /\ ~RadarConfigured)
                 => call'[c].p2 = "absent" /\ call'[c].n2 = 0
              /\ ( /\ call[c].pc = "secondary" /\ call'[c].pc = "set"
                    /\ ~IpInfoConfigured /\ RadarConfigured )
                 => /\ call'[c].n1 = 0 /\ call'[c].n2 = 1
                    /\ call'[c].raw \in RadarPayloads(call[c].ip)
                    /\ call'[c].insight = normalizeRadar(call'[c].raw)
              /\ ( /\ call[c].pc = "set" /\ call'[c].pc = "done"
                    /\ ~IpInfoConfigured /\ RadarConfigured )
                 => /\ call'[c].result = Ok(call[c].insight)
                    /\ call'[c].n1 = 0
          /\ \A r \in Revals :
              (reval[r].pc = "primary" /\ reval'[r] # reval[r] /\ ~IpInfoConfigured)
                 => reval'[r].pc = "secondary"
       ]_vars

\* With only the secondary provider configured, a lookup that missed the cache
\* has settled with an insight after one secondary call and no primary call.
C15_Witness ==
    /\ ~IpInfoConfigured /\ RadarConfigured
    /\ \E c \in Callers :
          /\ call[c].pc = "done" /\ call[c].served = "miss"
          /\ call[c].p1 = "absent" /\ call[c].p2 = "ok"
          /\ call[c].n1 = 0 /\ call[c].n2 = 1
          /\ call[c].result.kind = "ok"
          /\ call[c].result.data = cache[call[c].ip].data

\* ------------------------------------------------------------------- C16
\* The outcome of a fetch function as the request process reports it.
AsOut(o) ==
    CASE o.kind = "ok" -> [kind |-> "return", value |-> "payload"]
      [] o.kind = "absent" -> [kind |-> "return", value |-> "null"]
      [] o.kind = "fail" -> [kind |-> "throw", value |-> "Error"]
      [] OTHER -> [kind |-> o.kind, value |-> ""]

\* A request that was made and whose headers came before the timer went off.
Answered == probe.pc = "done" /\ probe.calls = 1 /\ ~probe.timedOut

FetchDone == probe.pc = "done" /\ probe.fn \in {"ipinfo", "radar"}

\* A configured client throws on a status other than success and, for Radar,
\* on an envelope with success false.
ThrowsOnRefusal ==
    (FetchDone /\ Answered) =>
        /\ probe.answer.headers = "bad" => probe.out.kind = "throw"
        /\ ( /\ probe.fn = "radar" /\ probe.answer.headers = "ok"
              /\ probe.answer.body \in {"object", "empty"} /\ ~probe.answer.success )
           => probe.out.kind = "throw"

\* C16 as stated: a configured client throws on a non-success status and on a
\* Radar envelope with success false, and a client returns null only when its
\* credentials are missing.
C16_Original ==
    /\ ThrowsOnRefusal
    /\ (FetchDone /\ probe.out = [kind |-> "return", value |-> "null"])
           => ~Configured(probe.fn)

\* C16, amended: a configured client throws on a non-success status and on a
\* Radar envelope with success false; a client returns null when its
\* credentials are missing, without a request, and otherwise only when a
\* success answer carries no payload.  The outcome is the one the lookup
\* draws from IpInfoOutcomes and RadarOutcomes for the same answer.
C16_ClientFailure ==
    /\ ThrowsOnRefusal
    /\ (FetchDone /\ probe.out = [kind |-> "return", value |-> "null"])
           => \/ ~Configured(probe.fn) /\ probe.calls = 0
              \/ /\ Configured(probe.fn) /\ Answered
                 /\ probe.answer.headers = "ok" /\ probe.answer.body = "empty"
                 /\ probe.fn = "radar" => probe.answer.success
    /\ (FetchDone /\ (Answered \/ probe.calls = 0))
           => probe.out = AsOut(IF probe.fn = "ipinfo"
                                THEN fetchIpInfoWorker(probe.answer, NoPayload)
                                ELSE fetchRadarWorker(probe.answer, NoPayload))

\* The configured Radar client has thrown on a success status whose envelope
\* says success false.
C16_Witness ==
    /\ probe.fn = "radar" /\ Answered
    /\ Configured("radar")
    /\ probe.answer.headers = "ok" /\ probe.answer.body = "object"
    /\ ~probe.answer.success
    /\ probe.out.kind = "throw"

\* ------------------------------------------------------------------- C17
\* C17 as stated: a provider request is in flight for at most clientTimeout,
\* headers and body together; a request that has not finished by then is
\* aborted and its call fails (verifyRadarToken answering false).
C17_Original ==
    /\ probe.pc \in {"headers", "body"} => probe.elapsed <= clientTimeout
    /\ (probe.pc = "done" /\ probe.timedOut)
           => probe.out \in {[kind |-> "throw", value |-> "Error"],
                             [kind |-> "return", value |-> "false"]}

C12_Original ==
    \A c \in Callers :
        (req[c].route = "/api/v1/ip/:ip" /\ req[c].status # 0 /\ call[c].pc = "done")
            => /\ call[c].result = ApiError(502) => req[c].status = 502
               /\ call[c].result.kind = "ok" => req[c].status = 200

\* ------------------------------------------------------------------- C13
\* C13 as stated: on every route lookupIpInsight is only called with a text
\* that passes the address test of the :ip routes, and a request answered 400
\* has made no call: no cache read, no deduplicator entry, no provider call.
C13_Original ==
    \A c \in Callers :
        /\ (req[c].route # "" /\ call[c].pc \notin {"idle", "rejected"})
              => MatchesDottedQuad(call[c].ip)
        /\ req[c].status = 400
              => /\ call[c] = [IdleCall EXCEPT !.pc = "rejected"]
                 /\ \A k \in DedupKeys : ~HasPending(k)


\* A step in which a warmCache call is made while a warming run is in progress
\* (lastCall moves only at a call, or the scheduled handler runs).
CallWhileInProgress ==
    /\ isInProgress(warmer)
    /\ \/ warmer'.lastCall # warmer.lastCall
       \/ warmer'.ipCacheInitialized # warmer.ipCacheInitialized /\ warmer.CACHE_WARMING_ENABLED

ActiveRuns == {r \in Runs : warmer.run[r].pc # "idle"}

\* C19: at most one warming run is active at any time, and a warmCache call
\* made while a run is in progress, by the cold-start trigger or by the
\* scheduled one, starts no run, issues no warmer lookup and leaves the
\* progress flag, the warmed count and the run where they were.
C19_ReentrancyGuard ==
    /\ [](Cardinality(ActiveRuns) <= 1 /\ (ActiveRuns # {} <=> isInProgress(warmer)))
    /\ [][CallWhileInProgress =>
            /\ warmer'.lastCall = "skipped"
            /\ warmer'.run = warmer.run
            /\ warmer'.inProgress = warmer.inProgress
            /\ warmer'.warmedCount = warmer.warmedCount
            /\ \A c \in Callers : req'[c].route = "warmer" => req[c].route = "warmer"]_vars

\* The scheduled trigger has started a run, and the cold-start trigger of the
\* first request called warmCache while that run was awaiting a lookup.
C19_Witness ==
    /\ warmer.lastCall = "skipped"
    /\ warmer.ipCacheInitialized
    /\ isInProgress(warmer)
    /\ \E r \in Runs : warmer.run[r].pc = "await" /\ call[warmer.run[r].lookup].pc # "done"
    /\ \E c \in Callers : req[c].route = "/api/ip/:ip"

\* The warmer-issued lookups that have not settled.
WarmInFlight == {c \in Callers : req[c].route = "warmer" /\ call[c].pc \notin {"idle", "done"}}

\* C20: at most one warmer-issued lookup is in flight at any time, and a
\* warmer lookup starts only when no earlier warmer lookup is outstanding, for
\* the candidate the run has reached in list order and, past the first
\* candidate, after the delay has elapsed.
C20_Sequential ==
    /\ [](Cardinality(WarmInFlight) <= 1)
    /\ [][\A c \in Callers :
            (req'[c].route = "warmer" /\ req[c].route # "warmer") =>
                /\ \A b \in Callers : req[b].route # "warmer"
                /\ \E r \in Runs :
                      /\ warmer.run[r].pc = "next"
                      /\ warmer'.run[r].lookup = c
                      /\ call'[c].ip = WarmCandidates[warmer.run[r].index]
                      /\ warmer.run[r].index > 1 => warmer.run[r].slept]_vars

\* The run is at its second candidate, whose lookup is in flight, after the
\* first candidate's lookup failed and was passed over.
C20_Witness ==
    /\ \E r \in Runs :
          /\ warmer.run[r].pc = "await"
          /\ warmer.run[r].index = 2
          /\ warmer.run[r].lookup \in WarmInFlight
    /\ warmer.warmedCount = 0

\* ------------------------------------------------------------------- C11
\* The calls made for a request, as opposed to the warmer's.
Foreground(c) == req[c].route \notin {"", "warmer"}

\* A call served a stale entry returns that entry's data, and the outcome of a
\* settled call stays what it is.
StaleServedEntry ==
    \A c \in Callers :
        /\ (call[c].pc = "branch" /\ call[c].cached # NoEntry /\ call[c].isStale
              /\ call'[c].pc = "done")
           => call'[c].result = Ok(call[c].cached.data) /\ call'[c].served = "stale"
        /\ (call[c].pc = "done" /\ call'[c].pc = "done") => call'[c].result = call[c].result

\* No step of a revalidation, the failing cache write included, touches a call.
RevalidationApart ==
    \A r \in Revals : (reval[r].pc # "idle" /\ reval'[r] # reval[r]) => call' = call

\* The warmer passes over a lookup of its own that failed: the run goes on or
\* ends, and no other call is touched.
WarmerSwallows ==
    \A r \in Runs :
        (warmer.run[r].pc = "await" /\ warmer'.run[r].pc # "await")
        => /\ \A c \in Callers : c # warmer.run[r].lookup => call'[c] = call[c]
           /\ warmer'.run[r].pc = IF warmer.run[r].index = Len(WarmCandidates)
                                  THEN "idle" ELSE "sleep"

\* A call made for a request is settled by the factory of a warmer lookup.
SettledByWarmer(c) ==
    /\ Foreground(c)
    /\ call[c].pc = "waiting"
    /\ req[call[c].ticket].route = "warmer"
    /\ call'[c].pc = "done"

\* C11 as stated: beyond the revalidation and the warmer keeping their
\* failures to themselves, no call made for a request ever ends with the
\* failure of a warmer lookup.
C11_Original ==
    [][/\ StaleServedEntry
       /\ RevalidationApart
       /\ WarmerSwallows
       /\ \A c \in Callers : SettledByWarmer(c) => call'[c].result.kind = "ok"]_vars

\* C11: a call served a stale entry returns that entry's data and keeps it
\* whatever the revalidation does, a failing cache write included; the warmer
\* passes over its failed lookups without touching another call; and a call
\* made for a request ends with the failure of a warmer lookup only when the
\* deduplicator attached it to that lookup, whose outcome it then shares.
C11_BackgroundFailures ==
    [][/\ StaleServedEntry
       /\ RevalidationApart
       /\ WarmerSwallows
       /\ \A c \in Callers :
            (Foreground(c) /\ call[c].pc # "done" /\ call'[c].pc = "done"
               /\ call'[c].result.kind # "ok")
            => \/ call[c].ticket = c
               \/ /\ SettledByWarmer(c)
                  /\ call'[c].result = call'[call[c].ticket].result]_vars

\* A request was served the stale entry, the revalidation it started has
\* ended in a failed cache write, and the call still holds the entry's data.
C11_Witness ==
    /\ \E c \in Callers :
          /\ Foreground(c)
          /\ call[c].pc = "done" /\ call[c].served = "stale"
          /\ call[c].result = Ok(cache[call[c].ip].data)
          /\ reval[1].ip = call[c].ip
    /\ reval[1].pc = "idle" /\ reval[1].outcome = "write-failed"
    /\ \A r \in Revals : r # 1 => reval[r] = IdleReval
    /\ \A r \in Runs : warmer.run[r].lookup = 0 /\ warmer.run[r].index <= 1

\* ------------------------------------------------------------------- C21
\* Run r takes the outcome of the lookup it awaited.
RunSettles(r) == warmer.run[r].pc = "await" /\ warmer'.run[r].pc # "await"

\* C21: a warming run whose lookup failed goes on to the next candidate, or
\* ends if that was the last one; a run ends only after its last candidate;
\* and every successful lookup adds one to the warmed count, whatever failed
\* before it, while a failed one leaves the count as it was.
C21_FailureIsolation ==
    [][\A r \in Runs :
        /\ RunSettles(r) =>
              /\ warmer'.run[r].pc = IF warmer.run[r].index = Len(WarmCandidates)
                                     THEN "idle" ELSE "sleep"
              /\ warmer'.warmedCount =
                    IF call[warmer.run[r].lookup].result.kind = "ok"
                    THEN warmer.warmedCount + 1 ELSE warmer.warmedCount
        /\ (warmer.run[r].pc # "idle" /\ warmer'.run[r].pc = "idle")
              => warmer.run[r].index = Len(WarmCandidates) /\ ~warmer'.inProgress
        /\ (warmer.run[r].pc = "sleep" /\ warmer'.run[r].pc # "sleep")
              => /\ warmer'.run[r].pc = "next"
                 /\ warmer'.run[r].index = warmer.run[r].index + 1
    ]_vars

\* The run is over with one candidate warmed: the first candidate was never
\* stored, so its lookup failed, and the second one was looked up and stored.
C21_Witness ==
    /\ warmer.lastCall = "started" /\ ~isInProgress(warmer)
    /\ warmer.warmedCount = 1
    /\ written[WarmCandidates[1]] = -1
    /\ cache[WarmCandidates[2]] # NoEntry

\* ------------------------------------------------------------------- C22
\* C22 as stated: isInProgress() is true exactly while a warming run is under
\* way, and a warmer that is warming is eventually idle again.
C22_Original ==
    /\ [](isInProgress(warmer) <=> ActiveRuns # {})
    /\ (isInProgress(warmer) ~> ~isInProgress(warmer))

\* ------------------------------------------------------------------- C23
\* C23: a warmCache call with enabled = false starts no run and no lookup and
\* leaves the progress flag, the warmed count, the calls and the cache as they
\* were.
C23_DisabledNoOp ==
    [][(~warmer'.lastEnabled /\ warmer.lastEnabled) =>
          /\ warmer'.lastCall = "disabled"
          /\ warmer'.inProgress = warmer.inProgress
          /\ warmer'.warmedCount = warmer.warmedCount
          /\ warmer'.run = warmer.run
          /\ UNCHANGED <<cache, written, pending, call, req>>]_vars

\* The warmer is idle after a run that warmed a candidate, and the last call
\* made to it had enabled = false.
C23_Witness ==
    /\ warmer.lastCall = "disabled" /\ ~warmer.lastEnabled
    /\ ~isInProgress(warmer)
    /\ warmer.warmedCount >= 1
    /\ \A c \in Callers : req[c].route # "warmer"

\* ------------------------------------------------------------------- C24
\* C24: after every sequence of set and time advance both backends answer
\* getWithStale and get alike for every key, entry and isStale flag, and the
\* durable backend keeps each entry until storedAt + staleTtlMs.
C24_BackendsAgree ==
    \A key \in StoreKeys :
        /\ durableGetWithStale(key) = getWithStale(key)
        /\ durableGet(key) = memoryGet(key)
        /\ kv[key] # NoRecord => kv[key].expiration = kv[key].value.storedAt + staleTtlMs

\* One key is served stale by both backends while the other key, written
\* earlier, has expired in both.
C24_Witness ==
    \E a \in StoreKeys, b \in StoreKeys :
        /\ durableGetWithStale(a).entry # NoEntry /\ durableGetWithStale(a).isStale
        /\ getWithStale(a).isStale
        /\ cache[b] # NoEntry /\ kv[b] # NoRecord
        /\ getWithStale(b).entry = NoEntry /\ durableGetWithStale(b).entry = NoEntry

\* ------------------------------------------------------------------- C25
\* The values a set for key is writing in this state: the insight of a miss
\* path at its cache write, or of a revalidation at its cache write.
BeingSet(key) ==
    {call[c].insight : c \in {b \in Callers : call[b].pc = "set" /\ call[b].ip = key}}
        \cup {reval[r].insight : r \in {q \in Revals : reval[q].pc = "set" /\ reval[q].ip = key}}

\* C25: an entry changes only by a set of its key, which replaces it whole by
\* the value written with storedAt the instant of the write, whatever the
\* entry was before; a read of the key then returns exactly that entry, the
\* entries of all other keys stay as they were, and a read within staleTtlMs
\* returns the entry as it is stored.
C25_WholeEntryReplacement ==
    /\ [](\A key \in Addresses :
            (cache[key] # NoEntry /\ Age(cache[key]) <= staleTtlMs)
            => getWithStale(key).entry = cache[key])
    /\ [][\A key \in Addresses :
            cache'[key] # cache[key] =>
                /\ \E v \in BeingSet(key) : cache'[key] = [data |-> v, storedAt |-> now]
                /\ getWithStale(key)' = [entry |-> cache'[key], isStale |-> FALSE]
                /\ \A other \in Addresses \ {key} : cache'[other] = cache[other]]_vars

\* The entry the isolate found for an ip has been replaced, data and storedAt,
\* while another ip has an entry of its own.
C25_Witness ==
    \E key \in IPs, other \in Addresses \ IPs :
        /\ written[key] = 0 /\ now > 0
        /\ cache[key].storedAt = now
        /\ cache[key].data.country # "US"
        /\ cache[other] # NoEntry

\* ------------------------------------------------------------------- C26
\* Call c is between its first cache read and its settlement.
Resolving(c) == call[c].pc \in {"branch", "waiting", "recheck", "primary", "secondary", "set"}

\* The step call c takes next by itself.
CallStep(c) ==
    \/ LookupServeCached(c)
    \/ LookupDeduplicate(c)
    \/ FactoryRecheck(c)
    \/ FactoryPrimary(c)
    \/ FactorySecondary(c)
    \/ FactoryStore(c)

\* The ip of call c around a step that starts, moves or ends it.
IpAround(c) == IF call'[c].ip # "" THEN call'[c].ip ELSE call[c].ip

\* C26: a call waits only for a pending resolution of its own ip and otherwise
\* always has its next step ready, whatever calls for other ips are doing;
\* calls for different ips hold different tickets; a call returns data of its
\* own ip; and a step moves calls of one ip only and writes the entry of that
\* ip only.
C26_IndependentIps ==
    /\ [](\A c \in Callers :
            /\ Resolving(c) =>
                  IF call[c].pc = "waiting"
                  THEN /\ call[c].ticket # c
                       /\ Resolving(call[c].ticket)
                       /\ call[call[c].ticket].ip = call[c].ip
                       /\ pending[DedupKey(call[c].ip)] = call[c].ticket
                  ELSE ENABLED CallStep(c)
            /\ \A d \in Callers :
                  (Resolving(c) /\ Resolving(d) /\ call[c].ip # call[d].ip /\ call[c].ticket # 0)
                  => call[c].ticket # call[d].ticket
            /\ (call[c].pc = "done" /\ call[c].result.kind = "ok")
                  => call[c].result.data.ip = call[c].ip)
    /\ [][/\ \A c \in Callers, d \in Callers :
              (call'[c] # call[c] /\ call'[d] # call[d]) => IpAround(c) = IpAround(d)
          /\ \A key \in Addresses :
              cache'[key] # cache[key]
              => \E c \in Callers : call[c].ip = key /\ call'[c] # call[c]]_vars

\* Two resolutions are pending at once under their own keys: the one for one
\* ip has lost its primary provider, the one for the other ip has its insight.
C26_Witness ==
    \E c \in Callers, d \in Callers :
        /\ call[c].ip # call[d].ip
        /\ call[c].pc = "secondary" /\ call[c].p1 = "fail"
        /\ call[d].pc = "set"
        /\ pending[DedupKey(call[c].ip)] = c
        /\ pending[DedupKey(call[d].ip)] = d

\* ------------------------------------------------------------------- C27
\* A revalidation r and a miss-path resolution c of the same ip both stand at
\* their cache write.
Racing(r, c) ==
    /\ reval[r].pc = "set"
    /\ call[c].pc = "set"
    /\ reval[r].ip = call[c].ip

\* C27 as stated: the two racing resolutions write the same insight.
C27_Original ==
    \A r \in Revals, c \in Callers : Racing(r, c) => reval[r].insight = call[c].insight

\* C27: each of two racing resolutions holds a whole insight of the ip, and
\* each write that lands replaces the entry by the writer's own insight with
\* storedAt the instant of the write, so the entry left behind is that of the
\* write that lands last.
C27_LastWriteWins ==
    /\ [](\A r \in Revals, c \in Callers :
            Racing(r, c) =>
                /\ reval[r].insight.ip = reval[r].ip /\ reval[r].insight.country \in Countries
                /\ call[c].insight.ip = call[c].ip /\ call[c].insight.country \in Countries)
    /\ [][/\ \A r \in Revals :
               (reval[r].pc = "set" /\ reval'[r].pc = "idle" /\ reval'[r].outcome = "stored")
               => cache'[reval[r].ip] = [data |-> reval[r].insight, storedAt |-> now]
          /\ \A c \in Callers :
               (call[c].pc = "set" /\ call'[c].pc = "done")
               => /\ cache'[call[c].ip] = [data |-> call[c].insight, storedAt |-> now]
                  /\ call'[c].result = Ok(call[c].insight)]_vars

\* The entry of an ip has expired, a revalidation started while it was stale
\* and a miss-path resolution started after it expired both stand at their
\* write, with different insights, and an entry written meanwhile is there.
C27_Witness ==
    \E r \in Revals, c \in Callers :
        /\ Racing(r, c)
        /\ reval[r].insight # call[c].insight
        /\ written[call[c].ip] >= 0

\* ------------------------------------------------------------------- C28
\* C28: in a miss path the secondary provider is called only from the step
\* after the primary call has settled without an insight, and not at all when
\* the primary produced one; a revalidation goes from its primary call to its
\* write with an insight, or to its secondary call without one, and calls the
\* secondary provider from nowhere else.
C28_ProvidersOrdered ==
    /\ [](\A c \in Callers :
            /\ (call[c].n2 > 0 \/ call[c].p2 # "none") => call[c].p1 \in {"fail", "absent"}
            /\ call[c].p1 = "ok" => (call[c].n2 = 0 /\ call[c].p2 = "none")
            /\ call[c].pc = "primary" => (call[c].p1 = "none" /\ call[c].n2 = 0))
    /\ [](\A r \in Revals : reval[r].pc \in ProviderPcs => reval[r].insight = NoInsight)
    /\ [][/\ \A c \in Callers :
               (call'[c].pc # "idle"
                  /\ (call'[c].n2 # call[c].n2 \/ call'[c].p2 # call[c].p2))
               => call[c].pc = "secondary"
          /\ \A r \in Revals :
               /\ (reval'[r].pc = "secondary" /\ reval[r].pc # "secondary")
                    => reval[r].pc = "primary"
               /\ (reval[r].pc = "primary" /\ reval'[r] # reval[r])
                    => \/ reval'[r].pc = "set" /\ reval'[r].insight # NoInsight
                       \/ reval'[r].pc = "secondary" /\ reval'[r].insight = NoInsight]_vars

\* One miss path got its insight from the primary provider and never called
\* the secondary; another lost the primary and got it from the secondary; and
\* a revalidation has stored an insight.
C28_Witness ==
    /\ \E c \in Callers :
          call[c].p1 = "ok" /\ call[c].n1 = 1 /\ call[c].n2 = 0 /\ call[c].pc = "done"
    /\ \E d \in Callers :
          call[d].p1 = "fail" /\ call[d].n1 = 1 /\ call[d].n2 = 1 /\ call[d].p2 = "ok"
    /\ \E r \in Revals : reval[r].outcome = "stored"

\* ------------------------------------------------------------------- C29
\* The factory of call c is at its own cache read and the entry is there.
RecheckHit(c) ==
    /\ call[c].pc = "recheck"
    /\ getWithStale(call[c].ip).entry # NoEntry

\* C29: a factory whose own cache read finds the entry, populated since the
\* caller's first read missed, ends the call with the entry's data, having
\* made no provider call, and writes nothing to the cache.
C29_RecheckInsideLock ==
    /\ [](\A c \in Callers : call[c].pc = "recheck" =>
            /\ call[c].served = "miss" /\ call[c].ticket = c
            /\ call[c].n1 = 0 /\ call[c].n2 = 0)
    /\ [][\A c \in Callers :
            (RecheckHit(c) /\ call'[c] # call[c]) =>
                /\ call'[c].pc = "done"
                /\ call'[c].result = Ok(getWithStale(call[c].ip).entry.data)
                /\ call'[c].n1 = 0 /\ call'[c].n2 = 0
                /\ call'[c].p1 = "none" /\ call'[c].p2 = "none"
                /\ UNCHANGED <<cache, written>>]_vars

\* A call whose first read missed ran its own factory and ended with the data
\* of the entry, with no provider call made.
C29_Witness ==
    \E c \in Callers :
        /\ call[c].pc = "done" /\ call[c].served = "miss" /\ call[c].ticket = c
        /\ call[c].p1 = "none" /\ call[c].n1 = 0 /\ call[c].n2 = 0
        /\ call[c].result = Ok(cache[call[c].ip].data)

\* C30: cold-start warming is triggered at most once per isolate.  The
\* initialized flag never resets; the first fetch request that finds the
\* key-value binding sets it, and starts warming only when warming is
\* enabled; a fetch request taken with the flag set, or without the binding,
\* leaves the warmer exactly as it was.
FetchTaken ==
    \E c \in Callers :
        /\ req[c].route = ""
        /\ req'[c].route = "/api/ip/:ip"

C30_ColdStartOnce ==
    /\ [][warmer.ipCacheInitialized => warmer'.ipCacheInitialized]_vars
    /\ [][(FetchTaken /\ (warmer.ipCacheInitialized \/ ~warmer.IP_CACHE)) =>
            warmer' = warmer]_vars
    /\ [][(FetchTaken /\ ~warmer.ipCacheInitialized /\ warmer.IP_CACHE) =>
            /\ warmer'.ipCacheInitialized
            /\ warmer.CACHE_WARMING_ENABLED =>
                    warmer' = warmCache([warmer EXCEPT !.ipCacheInitialized = TRUE], TRUE)
            /\ ~warmer.CACHE_WARMING_ENABLED =>
                    warmer' = [warmer EXCEPT !.ipCacheInitialized = TRUE]]_vars
    /\ [](~warmer.IP_CACHE => ~warmer.ipCacheInitialized)

\* The flag is set, the warmer was never called, and a later request has been
\* taken next to an entry that an earlier request left in the cache.
C30_Witness ==
    /\ warmer.ipCacheInitialized
    /\ ~warmer.inProgress
    /\ warmer.lastCall = "none"
    /\ \E c \in Callers :
        /\ req[c].route = "/api/ip/:ip"
        /\ req[c].status = 0
        /\ call[c].pc # "idle"
        /\ written[call[c].ip] >= 0
        /\ \A b \in Callers \ {c} : req[b].route # "warmer"

\* C31: one Insight Service per isolate.  createWorkerIpService is called at
\* most once, and exactly once as soon as a handler has run; every handler
\* works with that one instance, whose cache store is configured from the env
\* of the first event handled, whatever env later events carry.
C31_OneServicePerIsolate ==
    /\ workerGlobal.created <= 1
    /\ workerGlobal.workerServices.instance = workerGlobal.created
    /\ workerGlobal.handled # NoHandler =>
            /\ workerGlobal.created = 1
            /\ workerGlobal.handled.instance = 1
            /\ workerGlobal.workerServices = createWorkerIpService(workerGlobal.first, 1)

\* A health request that carried another CACHE_BACKEND than the first event
\* of the isolate was served by the service built from the first env.
C31_Witness ==
    /\ workerGlobal.handled.route = "/api/health"
    /\ workerGlobal.first.CACHE_BACKEND = KvText
    /\ workerGlobal.first.CACHE_TTL_MS = Text(<<"1">>)
    /\ workerGlobal.handled.backend = MemoryText
    /\ workerGlobal.handled.instance = 1
    /\ workerGlobal.workerServices.ipCache.backend = KvText
    /\ workerGlobal.workerServices.ipCache.ttlMs = 1

\* C37: the cache backend reported by GET /api/health equals the backend the
\* service constructed its cache with, for every value of CACHE_BACKEND.
C37_Original ==
    workerGlobal.handled.route = "/api/health" =>
        workerGlobal.handled.backend = workerGlobal.workerServices.ipCache.backend

\* C38: for every value of CACHE_TTL_MS and CACHE_STALE_TTL_MS the service
\* constructs its cache with 0 < ttlMs <= staleTtlMs, and a value that is not
\* set yields the default of 5 and of 30 minutes.
C38_Original ==
    workerGlobal.workerServices # NoServices =>
        LET ipCache == workerGlobal.workerServices.ipCache
            first == workerGlobal.first
        IN  /\ 0 < ipCache.ttlMs
            /\ ipCache.ttlMs <= ipCache.staleTtlMs
            /\ ~first.CACHE_TTL_MS.defined => ipCache.ttlMs = 5 * 60 * 1000
            /\ ~first.CACHE_STALE_TTL_MS.defined => ipCache.staleTtlMs = 30 * 60 * 1000

\* C36: with CACHE_WARMING_ENABLED not 'true' the worker never issues a
\* warming lookup: no warming run is started by either handler, and no
\* lookup is made for the warmer.
C36_Original ==
    ~warmer.CACHE_WARMING_ENABLED =>
        /\ ~warmer.inProgress
        /\ \A r \in Runs : warmer.run[r].pc = "idle"
        /\ \A c \in Callers : req[c].route # "warmer"

\* C35: every lookupIpInsight call that returns the data of a stale entry
\* schedules a revalidation in the same step, whether the stale entry was
\* found by the first read or by the re-check inside the dedup factory.
StaleFound(c) ==
    \/ /\ call[c].pc = "branch"
       /\ call[c].cached # NoEntry /\ call[c].isStale
    \/ /\ call[c].pc = "recheck"
       /\ getWithStale(call[c].ip).entry # NoEntry
       /\ getWithStale(call[c].ip).isStale

RevalidationScheduled(ip) ==
    \E r \in Revals :
        /\ reval[r].pc = "idle"
        /\ reval'[r].pc # "idle" /\ reval'[r].ip = ip

C35_Original ==
    [][\A c \in Callers :
          (StaleFound(c) /\ call'[c].pc = "done") => RevalidationScheduled(call[c].ip)]_vars

FactoryRunning == \E c \in Callers : call[c].pc \in FactoryPcs

C33_EveryCallSettles ==
    /\ \A c \in Callers :
          (call[c].pc # "idle") ~>
              (/\ call[c].pc = "done"
               /\ \/ call[c].result.kind = "ok" /\ call[c].result.data.ip = call[c].ip
                  \/ call[c].result = ApiError(502))
    /\ [](~FactoryRunning => \A k \in DedupKeys : ~HasPending(k))
    /\ [](\A c \in Callers : call[c].pc = "waiting" =>
              /\ call[call[c].ticket].pc \in FactoryPcs
              /\ pending[DedupKey(call[c].ip)] = call[c].ticket)

\* A resolution that found no insight has settled with the error for the
\* caller that ran it and for a waiter, and nothing is pending.
C33_Witness ==
    \E c, w \in Callers :
        /\ c # w
        /\ call[c].pc = "done" /\ call[c].ticket = c /\ call[c].n2 = 1
        /\ call[w].pc = "done" /\ call[w].ticket = c
        /\ call[c].result = ApiError(502) /\ call[w].result = ApiError(502)
        /\ \A k \in DedupKeys : ~HasPending(k)

\* C34: failures are not cached.  The cache holds insights only; a lookup
\* that ends with the upstream-unavailable error leaves the cache as it was
\* and its key out of the deduplicator; a later lookup of the same ip whose
\* factory finds no entry asks the providers again, and ends with the insight
\* when one of them answers.
PriorFailure(c) ==
    \E b \in Callers \ {c} :
        /\ call[b].ip = call[c].ip
        /\ call[b].pc = "done" /\ call[b].result = ApiError(502)

C34_FailuresNotCached ==
    /\ [](\A ip \in Addresses :
              cache[ip] # NoEntry =>
                  cache[ip].data.ip = ip /\ cache[ip].data.country \in Countries)
    /\ [](\A c \in Callers : call[c].pc = "done" => pending[DedupKey(call[c].ip)] # c)
    /\ [](\A c \in Callers :
              (call[c].pc = "done" /\ call[c].ticket = c
                 /\ (call[c].p1 = "ok" \/ call[c].p2 = "ok"))
              => call[c].result.kind = "ok")
    /\ [][\A c \in Callers :
            (call[c].pc # "done" /\ call'[c].pc = "done" /\ call'[c].result.kind = "error")
            => /\ UNCHANGED <<cache, written>>
               /\ ~HasPending(DedupKey(call[c].ip))']_vars
    /\ [][\A c \in Callers :
            (PriorFailure(c) /\ call'[c] # call[c]) =>
                /\ (call[c].pc = "recheck" /\ getWithStale(call[c].ip).entry = NoEntry)
                       => call'[c].pc = "primary"
                /\ (call[c].pc = "primary" /\ IpInfoConfigured)
                       => call'[c].n1 = call[c].n1 + 1
                /\ (call[c].pc = "secondary" /\ RadarConfigured)
                       => call'[c].n2 = call[c].n2 + 1]_vars

\* A lookup of the ip failed with the error; a later lookup ran its own
\* factory, asked the primary provider and made the first write of the ip.
C34_Witness ==
    \E b, c \in Callers :
        /\ b # c /\ call[b].ip = call[c].ip
        /\ call[b].pc = "done" /\ call[b].ticket = b /\ call[b].result = ApiError(502)
        /\ call[c].pc = "done" /\ call[c].ticket = c /\ call[c].n1 = 1
        /\ call[c].result.kind = "ok"
        /\ written[call[c].ip] = now
        /\ cache[call[c].ip] = [data |-> call[c].result.data, storedAt |-> now]

====
